---- MODULE Spec2Model ----
(***************************************************************************)
(* A model of the CircuiTikZ-to-JSON converter:                            *)
(*   src/convert.py            main: one document -> one JSON document     *)
(*   src/gen_tikz_tokens.py    block extraction and statement tokenizers   *)
(*   src/tikz_tokens_2_json.py attribute parsers and the element builder   *)
(*                                                                         *)
(* Text is modelled as TLA+ strings and every regular expression of the    *)
(* source is modelled by an operator that scans the string the way the     *)
(* regex engine does (leftmost match, greedy/lazy quantifiers).            *)
(*                                                                         *)
(* Encoding of Python values:                                              *)
(*   str            a TLA+ string                                          *)
(*   dict           a TLA+ record (function on strings); {} is <<>>        *)
(*   list           a TLA+ sequence                                        *)
(*   int            PyInt(n)                                               *)
(*   float          the IEEE 754 double, in one form for each value:       *)
(*                  PyFloat(m) for the double nearest to m thousandths     *)
(*                  (size below 2^20), NegZero for -0.0, PyDouble(neg, x)  *)
(*                  for every other double, by its sign and its size       *)
(*                  x.m * 2^x.e, PyInf(neg) for an infinity and PyNan for  *)
(*                  a NaN; a string in a slot that can also hold a number  *)
(*                  is PyStr(s) (stroke and fill opacity, scale x and y,   *)
(*                  the argument of convert_coordinate)                    *)
(*   None in a str slot     the string None, a text that no token is       *)
(*   a raised exception     Exc(name) in place of the returned value; a    *)
(*                          run of convert_tokens_to_json that raises      *)
(*                          keeps the number of diagnostics it had printed *)
(*                                                                         *)
(* Texts are sequences of the characters U+0001 to U+00FF, the ones a      *)
(* TLA+ string can hold; among them the decimal digits of \d, int() and    *)
(* float() are the ten ASCII digits.  A float result of 2^1024 or more is  *)
(* an infinity and one below 2^-1022 is rounded to a multiple of 2^-1074.  *)
(***************************************************************************)
EXTENDS Integers, Sequences, FiniteSets, TLC

VARIABLES
    pc,               \* position of main() in the body of its file loop
    latex_code,       \* convert.py:72  the text read from the input file
    circuit_content,  \* convert.py:74  result of extract_circuitikz_content
    token_blocks,     \* convert.py:85  result of tokenize_all_draw_contents
    json_objects,     \* convert.py:63  the component list being built
    output,           \* the document written to the output file
    diagnostics,      \* number of diagnostics printed by the converter
    call,             \* unit harness: the function applied and its arguments
    ret               \* unit harness: what the call returned or raised

vars == <<pc, latex_code, circuit_content, token_blocks, json_objects,
          output, diagnostics, call, ret>>

-----------------------------------------------------------------------------
(* Python string primitives *)

Min(S) == CHOOSE x \in S : \A y \in S : x <= y
Max(S) == CHOOSE x \in S : \A y \in S : x >= y

\* A local variable of the source: F applied to the value assigned to it.
\* (The value is computed once, however often F reads it.)
Bind(val, F(_)) == F(val)

Ch(s, i) == SubSeq(s, i, i)

\* s[i:i+len(lit)] == lit
StartsAt(s, i, lit) ==
    /\ i >= 1
    /\ i + Len(lit) - 1 <= Len(s)
    /\ SubSeq(s, i, i + Len(lit) - 1) = lit

\* str.startswith / str.endswith
startswith(s, lit) == StartsAt(s, 1, lit)
endswith(s, lit) == StartsAt(s, Len(s) - Len(lit) + 1, lit)

\* The least j in lo..hi that satisfies P, 0 when there is none.  (Scans are
\* written with First rather than by recursion on the index, which would
\* nest one evaluation per character.)
First(lo, hi, P(_)) ==
    IF \E j \in lo..hi : P(j)
    THEN CHOOSE j \in lo..hi : P(j) /\ \A k \in lo..(j - 1) : ~P(k)
    ELSE 0

\* The greatest j in lo..hi that satisfies P, 0 when there is none.
Last(lo, hi, P(_)) ==
    IF \E j \in lo..hi : P(j)
    THEN CHOOSE j \in lo..hi : P(j) /\ \A k \in (j + 1)..hi : ~P(k)
    ELSE 0

\* The first index >= from at which lit occurs in s, 0 when there is none
\* (str.find, 1-based; also re.search of a literal).
Find(s, lit, from) ==
    First(from, Len(s) - Len(lit) + 1,
          LAMBDA j : SubSeq(s, j, j + Len(lit) - 1) = lit)

Contains(s, lit) == Find(s, lit, 1) # 0

\* The rest of s from index i on (s[i-1:] in Python).
From(s, i) == SubSeq(s, i, Len(s))

Digits == {"0", "1", "2", "3", "4", "5", "6", "7", "8", "9"}
IsDigit(c) == c \in Digits
\* \s of the re module and the characters str.strip() removes, among the
\* characters up to U+00FF: space, \t, \n, \r, \f, the controls VT (0x0b),
\* FS, GS, RS and US (0x1c to 0x1f), NEL (U+0085) and the no-break space
\* (U+00A0); the last eight are written here as themselves.
SpaceChars ==
    {" ", "\t", "\n", "\r", "\f", "", "", "", "", "",
     "", " "}
IsSpace(c) == c \in SpaceChars
\* The white space that float() skips around the number of a text: the six
\* characters of C's isspace, and the white space outside ASCII.
FloatSpaceChars == {" ", "\t", "\n", "\r", "\f", "", "", " "}
Letters ==
    {"a", "b", "c", "d", "e", "f", "g", "h", "i", "j", "k", "l", "m",
     "n", "o", "p", "q", "r", "s", "t", "u", "v", "w", "x", "y", "z",
     "A", "B", "C", "D", "E", "F", "G", "H", "I", "J", "K", "L", "M",
     "N", "O", "P", "Q", "R", "S", "T", "U", "V", "W", "X", "Y", "Z"}
IsLetter(c) == c \in Letters

\* The first index >= i whose character is not in the set cs (Len(s)+1 when
\* every character from i on is in cs): the end of a greedy cs* run.
SkipIn(s, i, cs) ==
    LET j == First(i, Len(s), LAMBDA k : Ch(s, k) \notin cs)
    IN  IF j = 0 THEN (IF i > Len(s) THEN i ELSE Len(s) + 1) ELSE j

\* The first index >= i whose character is in the set cs (Len(s)+1 when there
\* is none): the end of a greedy [^cs]* run.
SkipNotIn(s, i, cs) ==
    LET j == First(i, Len(s), LAMBDA k : Ch(s, k) \in cs)
    IN  IF j = 0 THEN (IF i > Len(s) THEN i ELSE Len(s) + 1) ELSE j

SkipWs(s, i) == SkipIn(s, i, SpaceChars)

\* The last index <= i whose character is not in cs (0 when there is none).
SkipBackIn(s, i, cs) == Last(1, i, LAMBDA k : Ch(s, k) \notin cs)

\* str.strip(chars)
StripChars(s, cs) ==
    LET a == SkipIn(s, 1, cs)
        b == SkipBackIn(s, Len(s), cs)
    IN  IF a > b THEN "" ELSE SubSeq(s, a, b)

\* str.strip()
strip(s) == StripChars(s, SpaceChars)

\* str.split(sep) for a one-character separator: always at least one piece.
RECURSIVE split(_, _)
split(s, sep) ==
    LET i == Find(s, sep, 1)
    IN  IF i = 0 THEN <<s>>
        ELSE <<SubSeq(s, 1, i - 1)>> \o split(From(s, i + 1), sep)

\* sep.join(parts)
RECURSIVE join(_, _)
join(parts, sep) ==
    IF Len(parts) = 0 THEN ""
    ELSE IF Len(parts) = 1 THEN parts[1]
    ELSE parts[1] \o sep \o join(Tail(parts), sep)

\* str.count(lit) / len(re.findall(lit)) for a literal: non-overlapping.
RECURSIVE CountOf(_, _, _)
CountOf(s, lit, from) ==
    LET i == Find(s, lit, from)
    IN  IF i = 0 THEN 0 ELSE 1 + CountOf(s, lit, i + Len(lit))

-----------------------------------------------------------------------------
(* Digit texts.                                                            *)

DigitVal(c) ==
    CASE c = "0" -> 0 [] c = "1" -> 1 [] c = "2" -> 2 [] c = "3" -> 3
      [] c = "4" -> 4 [] c = "5" -> 5 [] c = "6" -> 6 [] c = "7" -> 7
      [] c = "8" -> 8 [] c = "9" -> 9

DigitChar(d) ==
    CASE d = 0 -> "0" [] d = 1 -> "1" [] d = 2 -> "2" [] d = 3 -> "3"
      [] d = 4 -> "4" [] d = 5 -> "5" [] d = 6 -> "6" [] d = 7 -> "7"
      [] d = 8 -> "8" [] d = 9 -> "9"

\* int(text) of a digit string ("" is 0)
RECURSIVE ParseNat(_)
ParseNat(s) ==
    IF Len(s) = 0 THEN 0
    ELSE 10 * ParseNat(SubSeq(s, 1, Len(s) - 1)) + DigitVal(Ch(s, Len(s)))

\* str(n) for n >= 0
RECURSIVE FormatNat(_)
FormatNat(n) ==
    IF n < 10 THEN DigitChar(n)
    ELSE FormatNat(n \div 10) \o DigitChar(n % 10)

AllDigits(s) == \A i \in 1..Len(s) : IsDigit(Ch(s, i))

\* Whether float(text) succeeds, for the unsigned decimal texts the regular
\* expressions of the source can hand to float(): digits with at most one
\* '.', and at least one digit ("1", "1.", ".5", "1.25"; not ".", "1.2.3").
IsFloatText(s) ==
    Bind(split(s, "."), LAMBDA parts :
        /\ Len(parts) <= 2
        /\ \A k \in 1..Len(parts) : AllDigits(parts[k])
        /\ \E i \in 1..Len(s) : IsDigit(Ch(s, i)))

-----------------------------------------------------------------------------
(* Python float arithmetic.  A float is an IEEE 754 double; the results of   *)
(* float(text), of a product, of a quotient and of round(x, 3) are computed   *)
(* from the exact binary values.  A natural number of any size is a sequence  *)
(* of limbs of 14 bits, least significant first, without leading zero limbs   *)
(* (<<>> is zero).                                                            *)

BigBase == 2 ^ 14

\* result, once val has been evaluated: the evaluation of an operand that
\* is itself a long computation does not nest inside the one that reads it
Strict(val, result) == CASE val = val -> result

\* a without its leading zero limbs: the limbs up to the last that is not 0
BigTrim(a) ==
    SubSeq(a, 1, Cardinality({i \in 1..Len(a) :
                                 \E j \in i..Len(a) : a[j] # 0}))

Limb(a, i) == IF i >= 1 /\ i <= Len(a) THEN a[i] ELSE 0

\* The carry (1) or the borrow (-1) that reaches limb i of cols: a limb of
\* BigBase or more sends a carry, which passes the limbs that are
\* BigBase - 1; a limb below 0 sends a borrow, which passes the limbs that
\* are 0
CarryIn(cols, i) ==
    (IF \E j \in 1..(i - 1) :
            /\ cols[j] >= BigBase
            /\ \A k \in (j + 1)..(i - 1) : cols[k] = BigBase - 1
     THEN 1 ELSE 0)
    - (IF \E j \in 1..(i - 1) :
              /\ cols[j] < 0
              /\ \A k \in (j + 1)..(i - 1) : cols[k] = 0
       THEN 1 ELSE 0)

\* The number whose limbs, before the carries are passed on, are cols:
\* sums, all in 0..(2 * BigBase - 2), or the differences of the limbs of a
\* number and of one that is not greater, all above -BigBase
Settle(cols) ==
    BigTrim([i \in 1..(Len(cols) + 1) |->
                (Limb(cols, i) + CarryIn(cols, i)) % BigBase])

\* n as a number, 0 <= n < 2^31
BigOfNat(n) ==
    BigTrim(<<n % BigBase, (n \div BigBase) % BigBase,
              n \div (BigBase * BigBase)>>)

\* a <= b: a is shorter, or as long and not greater at the last limb in
\* which they differ
BigLeq(a, b) ==
    \/ Len(a) < Len(b)
    \/ /\ Len(a) = Len(b)
       /\ ~\E i \in 1..Len(a) :
               /\ a[i] > b[i]
               /\ \A k \in (i + 1)..Len(a) : a[k] = b[k]

BigAdd(a, b) ==
    Settle([i \in 1..Max({Len(a), Len(b)}) |-> Limb(a, i) + Limb(b, i)])

\* a - b for a >= b
BigSub(a, b) == Settle([i \in 1..Len(a) |-> a[i] - Limb(b, i)])

\* a * k + c for 0 <= k < BigBase and 0 <= c < BigBase: limb i takes the low
\* 14 bits of its product and what the product below it holds above them
BigMulAdd(a, k, c) ==
    Settle([i \in 1..(Len(a) + 1) |->
               ((Limb(a, i) * k) % BigBase) + (Limb(a, i - 1) * k) \div BigBase
               + (IF i = 1 THEN c ELSE 0)])

BigMulSmall(a, k) == BigMulAdd(a, k, 0)

\* a * b for a b of at most four limbs.  Column k sums the products of the
\* limbs whose places add up to k: the low 14 bits of each, and what the
\* products of column k - 1 hold above them.
LowSum(a, b, k) ==
    ((Limb(a, k) * Limb(b, 1)) % BigBase)
    + ((Limb(a, k - 1) * Limb(b, 2)) % BigBase)
    + ((Limb(a, k - 2) * Limb(b, 3)) % BigBase)
    + ((Limb(a, k - 3) * Limb(b, 4)) % BigBase)

HighSum(a, b, k) ==
    (Limb(a, k) * Limb(b, 1)) \div BigBase
    + (Limb(a, k - 1) * Limb(b, 2)) \div BigBase
    + (Limb(a, k - 2) * Limb(b, 3)) \div BigBase
    + (Limb(a, k - 3) * Limb(b, 4)) \div BigBase

Column(a, b, k) == LowSum(a, b, k) + HighSum(a, b, k - 1)

BigMul(a, b) ==
    Settle([k \in 1..(Len(a) + Len(b) + 1) |->
               (Column(a, b, k) % BigBase) + Column(a, b, k - 1) \div BigBase])

\* a * 2^s: the bits of a limb that stay in their limb, and those that move
\* into the next
BigShl(a, s) ==
    BigTrim([i \in 1..(Len(a) + s \div 14 + 1) |->
                ((Limb(a, i - s \div 14) * 2 ^ (s % 14)) % BigBase)
                + (Limb(a, i - s \div 14 - 1) * 2 ^ (s % 14)) \div BigBase])

\* [q, sticky]: a \div 2^s, and whether a bit that is set was dropped
BigShr(a, s) ==
    IF s \div 14 >= Len(a) THEN [q |-> <<>>, sticky |-> Len(a) > 0]
    ELSE
    [q |-> BigTrim([i \in 1..(Len(a) - s \div 14) |->
                       (a[i + s \div 14] \div 2 ^ (s % 14))
                       + (Limb(a, i + s \div 14 + 1) % 2 ^ (s % 14))
                         * 2 ^ (14 - (s % 14))]),
     sticky |-> \/ \E i \in 1..Min({s \div 14, Len(a)}) : a[i] # 0
                \/ Limb(a, s \div 14 + 1) % 2 ^ (s % 14) # 0]

\* The number of bits of a limb, and of a
BitsOfLimb(n) == Min({k \in 0..14 : n < 2 ^ k})

BigBits(a) ==
    IF Len(a) = 0 THEN 0 ELSE 14 * (Len(a) - 1) + BitsOfLimb(a[Len(a)])

IsOdd(a) == Limb(a, 1) % 2 = 1

\* The remainder of the limbs of a from the i-th on by k, 0 < k <= 10000
RECURSIVE RemFrom(_, _, _)
RemFrom(a, k, i) ==
    IF i > Len(a) THEN 0 ELSE (RemFrom(a, k, i + 1) * BigBase + a[i]) % k

\* [q, r]: the quotient and the remainder of a by k, 0 < k <= 10000
BigDivSmall(a, k) ==
    [q |-> BigTrim([i \in 1..Len(a) |->
                       (RemFrom(a, k, i + 1) * BigBase + a[i]) \div k]),
     r |-> RemFrom(a, k, 1)]

\* [q, exact]: a \div 10^p, and whether 10^p divides a
RECURSIVE DivPow10(_, _)
DivPow10And(t, exact) == [q |-> t.q, exact |-> exact /\ t.exact]

DivPow10Rest(t, p) == Strict(t, DivPow10And(DivPow10(t.q, p), t.r = 0))

DivPow10Last(t) == [q |-> t.q, exact |-> t.r = 0]

DivPow10(a, p) ==
    IF p <= 4 THEN DivPow10Last(BigDivSmall(a, 10 ^ p))
    ELSE DivPow10Rest(BigDivSmall(a, 10000), p - 4)

\* cur \div d below BigBase, for a d whose last limb has its top bit set:
\* est, the quotient of the leading limbs, or one or two less
QuotientNear(cur, d, est) ==
    IF BigLeq(BigMulSmall(d, est), cur) THEN est
    ELSE IF BigLeq(BigMulSmall(d, est - 1), cur) THEN est - 1
    ELSE est - 2

QuotientLimb(cur, d) ==
    QuotientNear(cur, d,
                 Min({BigBase - 1,
                      (Limb(cur, Len(d) + 1) * BigBase + Limb(cur, Len(d)))
                          \div d[Len(d)]}))

\* [q, r]: the quotient and the remainder of a by d, where hi holds those
\* of the limbs of a above the i-th
RECURSIVE DivFrom(_, _, _, _)
DivEmit(cur, d, q, c) ==
    [q |-> <<c>> \o q, r |-> BigSub(cur, BigMulSmall(d, c))]

DivLimb(cur, d, q) == DivEmit(cur, d, q, QuotientLimb(cur, d))

DivStep(limb, d, hi) == DivLimb(BigTrim(<<limb>> \o hi.r), d, hi.q)

DivFrom(a, d, i, hi) ==
    Strict(hi, IF i <= 0 THEN hi
               ELSE DivFrom(a, d, i - 1, DivStep(a[i], d, hi)))

\* The limbs of a above those that d has less one are less than d
DivAll(a, d) ==
    DivFrom(a, d, Len(a) - Len(d) + 1,
            [q |-> <<>>,
             r |-> SubSeq(a, Max({1, Len(a) - Len(d) + 2}), Len(a))])

\* [q, exact]: a \div d for d > 0, and whether d divides a.  Both are
\* shifted so that the last limb of d has its top bit set.
BigDivShifted(t) == [q |-> BigTrim(t.q), exact |-> Len(t.r) = 0]

BigDivBy(a, d, up) == BigDivShifted(DivAll(BigShl(a, up), BigShl(d, up)))

BigDiv(a, d) == BigDivBy(a, d, 14 - BitsOfLimb(d[Len(d)]))

\* The number written by a string of decimal digits
RECURSIVE BigOfDigits(_)
BigWithDigits(hi, low) == Strict(hi, BigMulAdd(hi, 10000, ParseNat(low)))

BigOfDigits(s) ==
    IF Len(s) <= 4 THEN BigOfNat(ParseNat(s))
    ELSE BigWithDigits(BigOfDigits(SubSeq(s, 1, Len(s) - 4)),
                       SubSeq(s, Len(s) - 3, Len(s)))

\* str(n) of the number a
RECURSIVE FormatBig(_)
FormatLow(d) ==
    Strict(d, FormatBig(d.q) \o SubSeq(FormatNat(10000 + d.r), 2, 5))

FormatBig(a) ==
    IF Len(a) <= 1 /\ Limb(a, 1) < 10000 THEN FormatNat(Limb(a, 1))
    ELSE FormatLow(BigDivSmall(a, 10000))

\* The value of the limbs of a from the i-th on, which is below 2^31
RECURSIVE NatFrom(_, _)
NatFrom(a, i) == IF i > Len(a) THEN 0 ELSE a[i] + BigBase * NatFrom(a, i + 1)

BigToNat(a) == NatFrom(a, 1)

\* A double that is not negative: m * 2^e with m = 0 or 2^52 <= m < 2^53.
\* A double below 2^-1022 (a subnormal one) is a multiple of 2^-1074 and is
\* written in the same form, with an e below -1074; an e above 971 marks a
\* result of 2^1024 or more, which as a float is an infinity.
Double(m, e) == [m |-> m, e |-> e]
DoubleZero == Double(<<>>, 0)

\* The double nearest to (a + f) * 2^e, where 0 <= f < 1 and f # 0 iff
\* sticky, ties to the even mantissa.  When sticky, a has 55 bits or more.
\* A double keeps 53 bits of a, and fewer when the value is below 2^-1022:
\* the bits of 2^-1074 and above.
\* The double h * 2^e for an h of hb bits, at most 54 with rounding up
Normalised(h, hb, e) ==
    IF hb = 0 THEN DoubleZero
    ELSE IF hb = 54 THEN Double(BigShl(<<1>>, 52), e + 1)
    ELSE Double(BigShl(h, 53 - hb), e - (53 - hb))

RoundedUp(m, e) == Normalised(m, BigBits(m), e)

\* s.q holds the leading bits of a that are kept and one more, h the bits
\* that are kept
RoundHalf(s, h, sticky, e) ==
    RoundedUp(IF IsOdd(s.q) /\ (s.sticky \/ sticky \/ IsOdd(h))
              THEN BigAdd(h, <<1>>) ELSE h, e)

RoundKept(s, sticky, e) == RoundHalf(s, BigShr(s.q, 1).q, sticky, e)

\* keep is the number of bits of a that are kept; below 0, the value is
\* less than half of 2^-1074
RoundBits(a, bits, sticky, e, keep) ==
    IF bits = 0 \/ keep < 0 THEN DoubleZero
    ELSE IF bits <= keep THEN Double(BigShl(a, 53 - bits), e - (53 - bits))
    ELSE RoundKept(BigShr(a, bits - keep - 1), sticky, e + (bits - keep))

RoundPrecision(a, bits, sticky, e) ==
    RoundBits(a, bits, sticky, e,
              IF bits + e + 1074 < 53 THEN bits + e + 1074 ELSE 53)

RoundToDouble(a, sticky, e) == RoundPrecision(a, BigBits(a), sticky, e)

\* The double nearest to n / 10^places: float(text) of a decimal text.
\* n is shifted up so that the quotient has 57 bits or more.
DoubleOfQuotient(t, up) == RoundToDouble(t.q, ~t.exact, 0 - up)

DoubleShifted(n, places, up) ==
    DoubleOfQuotient(DivPow10(BigShl(n, up), places), up)

DoubleOfDecimal(n, places) ==
    IF places = 0 THEN RoundToDouble(n, FALSE, 0)
    ELSE DoubleShifted(n, places,
                       Max({0, 58 + (10 * places) \div 3 - BigBits(n)}))

\* x * y rounded to a double
DoubleMul(x, y) == RoundToDouble(BigMul(x.m, y.m), FALSE, x.e + y.e)

\* x / y rounded to a double, y > 0
DoubleDiv(x, y) ==
    IF Len(x.m) = 0 THEN DoubleZero
    ELSE Strict(y, DoubleOfQuotient(BigDiv(BigShl(x.m, 56), y.m),
                                    56 - (x.e - y.e)))

\* int(x) for a double x >= 0: the whole part
DoubleTrunc(x) ==
    IF x.e >= 0 THEN BigShl(x.m, x.e) ELSE BigShr(x.m, 0 - x.e).q

\* round(x, 3) * 1000 for a double x >= 0: the nearest whole number of
\* thousandths of the binary value, ties to even.  s.q holds the whole
\* halves of a thousandth in 1000 * x, h the whole thousandths.
NearestMilli(s, h) ==
    IF IsOdd(s.q) /\ (s.sticky \/ IsOdd(h)) THEN BigAdd(h, <<1>>) ELSE h

RoundHalves(s) == NearestMilli(s, BigShr(s.q, 1).q)

DoubleRoundBig(x) ==
    IF x.e >= 0 THEN BigShl(BigMulSmall(x.m, 1000), x.e)
    ELSE RoundHalves(BigShr(BigMulSmall(x.m, 1000), 0 - x.e - 1))

\* The same as an integer, for a double x below 2^20
DoubleRoundMilli(x) == BigToNat(DoubleRoundBig(x))

-----------------------------------------------------------------------------
\* Scalars of the output.  Every number is tagged: an int by its value, a
\* float by its value in thousandths; -0.0 is a value of its own.
PyInt(n) == <<"int", n>>
PyFloat(m) == <<"float", m>>
PyStr(s) == <<"str", s>>
NegZero == <<"negzero", 0>>

\* A float that is not a whole number of thousandths, or is 2^20 or more in
\* size: its sign (TRUE for negative) and the double of its size.
PyDouble(neg, x) == <<"double", neg, x.m, x.e>>

\* float('inf') and float('-inf') by the sign, and float('nan')
PyInf(neg) == <<"inf", neg>>
PyNan == <<"nan", FALSE>>
IsInfOrNan(v) == v[1] \in {"inf", "nan"}

\* The float of a sign and a double, as the tagged value that stands for it
FloatNear(neg, x, k) ==
    IF k # 0 /\ DoubleOfDecimal(BigOfNat(k), 3) = x
    THEN PyFloat(IF neg THEN 0 - k ELSE k)
    ELSE PyDouble(neg, x)

\* Whether the double x is 2^1024 or more: a float result of that size is
\* an infinity
Overflows(x) == x.e + 53 > 1024

FloatOfDouble(neg, x) ==
    Strict(x,
        IF Len(x.m) = 0 THEN (IF neg THEN NegZero ELSE PyFloat(0))
        ELSE IF Overflows(x) THEN PyInf(neg)
        ELSE IF x.e + 53 > 20 THEN PyDouble(neg, x)
        ELSE FloatNear(neg, x, DoubleRoundMilli(x)))

\* The float of sign neg and of k thousandths, as round(x, 3) gives it:
\* -0.0 and 0.0 keep their sign.  The same for the thousandths n as limbs.
FloatOfMilli(neg, k) ==
    IF k = 0 THEN (IF neg THEN NegZero ELSE PyFloat(0))
    ELSE PyFloat(IF neg THEN 0 - k ELSE k)

FloatOfBigMilli(neg, n) ==
    IF Len(n) <= 2 \/ (Len(n) = 3 /\ n[3] < 4 /\ BigToNat(n) < 1000 * 2 ^ 20)
    THEN FloatOfMilli(neg, BigToNat(n))
    ELSE PyDouble(neg, DoubleOfDecimal(n, 3))

\* round(x, 3) for the float of sign neg and size x; an x of 2^52 or more
\* is a whole number, which round(x, 3) returns
DoubleRound(neg, x) ==
    IF x.e >= 0 /\ Len(x.m) > 0 THEN PyDouble(neg, x)
    ELSE FloatOfBigMilli(neg, DoubleRoundBig(x))

\* The double of the size of a tagged number
Magnitude(v) ==
    IF v[1] = "double" THEN Double(v[3], v[4])
    ELSE IF v[1] = "float"
    THEN DoubleOfDecimal(BigOfNat(IF v[2] < 0 THEN 0 - v[2] ELSE v[2]), 3)
    ELSE IF v[1] = "int"
    THEN DoubleOfDecimal(BigOfNat(IF v[2] < 0 THEN 0 - v[2] ELSE v[2]), 0)
    ELSE DoubleZero

IsNegative(v) ==
    IF v[1] \in {"double", "inf", "nan"} THEN v[2]
    ELSE v[1] = "negzero" \/ v[2] < 0

IsZero(v) == v[1] = "negzero" \/ (v[1] \in {"int", "float"} /\ v[2] = 0)

\* -v
Neg(v) ==
    Strict(v,
        IF v[1] = "negzero" THEN PyFloat(0)
        ELSE IF v[1] = "nan" THEN v
        ELSE IF v[1] = "inf" THEN PyInf(~v[2])
        ELSE IF v[1] = "double" THEN <<"double", ~v[2], v[3], v[4]>>
        ELSE IF v[2] = 0 THEN (IF v[1] = "float" THEN NegZero ELSE v)
        ELSE <<v[1], 0 - v[2]>>)

\* s without its leading zeros, and without its trailing zeros
StripLeadingZeros(s) == From(s, SkipIn(s, 1, {"0"}))

StripTrailingZeros(s) == SubSeq(s, 1, Last(1, Len(s), LAMBDA i : Ch(s, i) # "0"))

\* float(text) for an unsigned decimal text that satisfies IsFloatText, from
\* its whole digits and its decimals.  A text of at most six whole digits
\* and three decimals is read as thousandths; any other text is rounded to
\* the nearest double.
FloatOfDigits(whole, frac) ==
    IF Len(whole) <= 6 /\ Len(frac) <= 3
    THEN PyFloat(1000 * ParseNat(whole) + ParseNat(SubSeq(frac \o "000", 1, 3)))
    ELSE FloatOfDouble(FALSE, DoubleOfDecimal(BigOfDigits(whole \o frac),
                                              Len(frac)))

FloatOfParts(parts) ==
    FloatOfDigits(StripLeadingZeros(parts[1]),
                  StripTrailingZeros(IF Len(parts) = 2 THEN parts[2] ELSE ""))

FloatOfUnsigned(s) == FloatOfParts(split(s, "."))

FloatOfStripped(t) ==
    IF startswith(t, "-") THEN Neg(FloatOfUnsigned(From(t, 2)))
    ELSE FloatOfUnsigned(IF startswith(t, "+") THEN From(t, 2) ELSE t)

\* float(text) for an optionally signed decimal text, surrounded by optional
\* white space ("-1", " 2.5", "+3", ".5", "0.0004")
float(text) == FloatOfStripped(StripChars(text, FloatSpaceChars))

\* Whether float(text) succeeds, for a text that holds a ")" or is a decimal
\* number surrounded by the white space of \s
Unsigned(t) == IF startswith(t, "-") \/ startswith(t, "+") THEN From(t, 2) ELSE t

IsFloatArg(text) == IsFloatText(Unsigned(StripChars(text, FloatSpaceChars)))

\* A dict-or-None value that is None.
NoneDict == [None |-> TRUE]
IsNoneDict(r) == DOMAIN r = {"None"}

\* None in a slot that otherwise holds a string: a text that no such slot
\* can hold.  A token that a tokenizer builds is a kind, a match of the wire
\* pattern, a stripped group, a group in brackets, or the (name) group
\* [^)]*: it does not start with a space, or it holds no ")".  The body
\* that extract_circuitikz_content returns does not hold the \end marker of
\* its own environment.
None == " )\\end{circuitikz}\\end{tikzpicture}"

\* tokens = None in place of a list of tokens (three_node_parser returns it
\* when its first pattern fails): a list of one text that is neither None
\* nor, by the argument made for None, a token.
NoTokens == <<None \o None>>

\* A raised exception, in place of a returned value.
Exc(name) == [exc |-> name]
IsExc(r) == "exc" \in DOMAIN r

\* result[key] = value on a dict
SetKey(d, key, value) == (key :> value) @@ d
HasKey(d, key) == key \in DOMAIN d

-----------------------------------------------------------------------------
(* Regular-expression building blocks.  A match is a record                *)
(*   [found, g, at, end]: whether the pattern matched, the text of its     *)
(*   group, the index of the match and the index after it.                 *)

NoMatch == [found |-> FALSE, g |-> "", at |-> 0, end |-> 0]

\* re.search(lit ([cs]+) post, s) from index from: the leftmost occurrence of
\* lit followed by a non-empty greedy run of characters of cs and by post.
RECURSIVE SearchRunIn(_, _, _, _, _)
SearchRunIn(s, lit, cs, post, from) ==
    Bind(Find(s, lit, from), LAMBDA i :
        IF i = 0 THEN NoMatch
        ELSE Bind(SkipIn(s, i + Len(lit), cs), LAMBDA e :
            IF e > i + Len(lit) /\ StartsAt(s, e, post)
            THEN [found |-> TRUE, g |-> SubSeq(s, i + Len(lit), e - 1),
                  at |-> i, end |-> e + Len(post)]
            ELSE SearchRunIn(s, lit, cs, post, i + 1)))

\* re.search(lit ([^cs]{minlen,}) post, s): as above for a negated class;
\* minlen is 0 for * and 1 for +.
RECURSIVE SearchRunNotIn(_, _, _, _, _, _)
SearchRunNotIn(s, lit, cs, minlen, post, from) ==
    Bind(Find(s, lit, from), LAMBDA i :
        IF i = 0 THEN NoMatch
        ELSE Bind(SkipNotIn(s, i + Len(lit), cs), LAMBDA e :
            IF e - (i + Len(lit)) >= minlen /\ StartsAt(s, e, post)
            THEN [found |-> TRUE, g |-> SubSeq(s, i + Len(lit), e - 1),
                  at |-> i, end |-> e + Len(post)]
            ELSE SearchRunNotIn(s, lit, cs, minlen, post, i + 1)))

\* The index after the match of [signs]?\d*\.?\d+ at index i, 0 when it does
\* not match there.  Greedy with backtracking: digits '.' digits when the dot
\* is followed by a digit, else the leading digits alone ("12." gives "12").
NumEnd(s, i, signs) ==
    Bind(IF i <= Len(s) /\ Ch(s, i) \in signs THEN i + 1 ELSE i, LAMBDA a :
    Bind(SkipIn(s, a, Digits), LAMBDA d1 :
    Bind(IF d1 <= Len(s) /\ Ch(s, d1) = "."
         THEN SkipIn(s, d1 + 1, Digits) ELSE d1, LAMBDA d2 :
        IF d2 > d1 + 1 THEN d2
        ELSE IF d1 > a THEN d1
        ELSE 0)))

\* re.search(lit ([signs]?\d*\.?\d+), s)
RECURSIVE SearchNum(_, _, _, _)
SearchNum(s, lit, signs, from) ==
    Bind(Find(s, lit, from), LAMBDA i :
        IF i = 0 THEN NoMatch
        ELSE Bind(NumEnd(s, i + Len(lit), signs), LAMBDA e :
            IF e # 0
            THEN [found |-> TRUE, g |-> SubSeq(s, i + Len(lit), e - 1),
                  at |-> i, end |-> e]
            ELSE SearchNum(s, lit, signs, i + 1)))

\* re.search(r'rgb,255:red,(\d+);green,(\d+);blue,(\d+)', s): the three
\* groups, or <<>> when there is no match.
RECURSIVE SearchRgb(_, _)
SearchRgb(s, from) ==
    Bind(SearchRunIn(s, "rgb,255:red,", Digits, ";green,", from), LAMBDA m1 :
        IF ~m1.found THEN <<>>
        ELSE Bind(SkipIn(s, m1.end, Digits), LAMBDA e2 :
             Bind(SkipIn(s, e2 + 6, Digits), LAMBDA e3 :
            IF e2 > m1.end /\ StartsAt(s, e2, ";blue,") /\ e3 > e2 + 6
            THEN <<m1.g, SubSeq(s, m1.end, e2 - 1), SubSeq(s, e2 + 6, e3 - 1)>>
            ELSE SearchRgb(s, m1.at + 1))))

\* f'rgb({red},{green},{blue})'
RgbText(g) == "rgb(" \o g[1] \o "," \o g[2] \o "," \o g[3] \o ")"

-----------------------------------------------------------------------------
(* tikz_tokens_2_json.py: conversion tables and scale factors *)

LINE_ALIASES ==
    ("on 1pt off 4pt" :> "dotted") @@
    ("on 1pt off 2pt" :> "denselydotted") @@
    ("on 1pt off 8pt" :> "looselydotted") @@
    ("on 4pt off 4pt" :> "dashed") @@
    ("on 4pt off 2pt" :> "denselydashed") @@
    ("on 4pt off 8pt" :> "looselydashed") @@
    ("on 4pt off 2pt on 1pt off 2pt" :> "dashdot") @@
    ("on 4pt off 1pt on 1pt off 1pt" :> "denselydashdot") @@
    ("on 4pt off 4pt on 1pt off 4pt" :> "looselydashdot") @@
    ("on 4pt off 2pt on 1pt off 2pt on 1pt off 2pt" :> "dashdotdot") @@
    ("on 4pt off 1pt on 1pt off 1pt on 1pt off 1pt" :> "denselydashdotdot") @@
    ("on 4pt off 4pt on 1pt off 4pt on 1pt off 4pt" :> "looselydashdotdot")

ARROW_ALIASES ==
    ("stealth" :> "stealth") @@
    ("stealth reversed" :> "stealthR") @@
    ("latex" :> "latex") @@
    ("latex reversed" :> "latexR") @@
    ("to" :> "to") @@
    ("to reversed" :> "toR") @@
    ("|" :> "line")

\* The scale factors, in millionths (37.795286, 37.795286, 38.88379).
LATEX_TO_JSON_SCALE_X_FACTOR == 37795286
LATEX_TO_JSON_SCALE_Y_FACTOR == 37795286
LATEX_TO_JSON_SCALE_SHAPE_FACTOR == 38883790

\* The product of a >= 0 thousandths and a factor of k millionths: the
\* whole thousandths in it, and the rest in millionths of a thousandth.
\* The product is split so that no intermediate value leaves 32 bits:
\* t and u are a times the second and the third three digits of k.
ProductSplit(a, k1, u, w) ==
    [whole |-> a * k1 + (w \div 1000),
     rest |-> 1000 * (w % 1000) + (u % 1000)]

ProductParts(a, k1, t, u) == ProductSplit(a, k1, u, t + (u \div 1000))

ProductMilli(a, k) ==
    ProductParts(a, k \div 1000000, a * ((k \div 1000) % 1000), a * (k % 1000))

\* round(|v| * factor, 3) in thousandths, from the doubles: the float
\* product, then the thousandth nearest to its binary value
RoundMulDouble(v, k) ==
    DoubleRoundBig(DoubleMul(Magnitude(v), DoubleOfDecimal(BigOfNat(k), 6)))

\* round(|v| * factor, 3) in thousandths for a float v and a factor of k
\* millionths.  The float product of a v in thousandths is within 1e-9 of
\* the exact one (three roundings of 2^-53 each, of a product below 2^27
\* thousandths), which is a whole number of 1e-9: unless the exact product
\* p lies half way between two thousandths, the float product rounds as the
\* exact one does.
RoundMulNear(v, k, p) ==
    IF p.rest = 500000 THEN BigToNat(RoundMulDouble(v, k))
    ELSE p.whole + (IF p.rest > 500000 THEN 1 ELSE 0)

\* The largest number of thousandths whose product is split in 32 bits
MaxSplit == 2 ^ 21

\* round(p, 3) for the float product of sign neg and size p: an infinity
\* when the product is 2^1024 or more
RoundProduct(neg, p) ==
    Strict(p, IF Overflows(p) THEN PyInf(neg) ELSE DoubleRound(neg, p))

\* round(v * factor, 3) as a tagged float, for a float v and a factor > 0
\* of k millionths; -0.0 for a negative v whose product rounds to zero.  An
\* infinity and a NaN stay what they are.
RoundMul(v, k) ==
    Strict(v,
        IF IsInfOrNan(v) THEN v
        ELSE IF v[1] = "float" /\ v[2] <= MaxSplit /\ 0 - v[2] <= MaxSplit
        THEN FloatOfMilli(IsNegative(v),
                          RoundMulNear(v, k, ProductMilli(IF v[2] < 0 THEN 0 - v[2]
                                                          ELSE v[2], k)))
        ELSE RoundProduct(IsNegative(v),
                          DoubleMul(Magnitude(v), DoubleOfDecimal(BigOfNat(k), 6))))

-----------------------------------------------------------------------------
(* tikz_tokens_2_json.py: scale_dash_pattern *)

\* A returned string, where the function can also raise.
Ret(v) == [value |-> v]

\* re.sub(r'(\d+\.?\d*)(pt)', scale_match, dash_pattern): each number that
\* is followed by pt is replaced by int(number / scale_factor).
\* The index after the match of (\d+\.?\d*)(pt) at index i, 0 when the
\* pattern does not match there.
PtNumberEnd(s, i) ==
    Bind(SkipIn(s, i, Digits), LAMBDA d1 :
    Bind(SkipIn(s, IF d1 <= Len(s) /\ Ch(s, d1) = "." THEN d1 + 1 ELSE d1,
                Digits), LAMBDA e :
        IF d1 > i /\ StartsAt(s, e, "pt") THEN e + 2 ELSE 0))

\* The first index >= i at which (\d+\.?\d*)(pt) matches, 0 when none.
NextPtNumber(s, i) == First(i, Len(s), LAMBDA k : PtNumberEnd(s, k) # 0)

\* The size in thousandths of a scale factor that is an int or a whole
\* number of thousandths, 0 for any other
MilliSize(v) ==
    IF v[1] = "int" THEN 1000 * (IF v[2] < 0 THEN 0 - v[2] ELSE v[2])
    ELSE IF v[1] = "float" THEN (IF v[2] < 0 THEN 0 - v[2] ELSE v[2])
    ELSE 0

\* The digits of int(q) for the float quotient q >= 0 of two doubles:
\* int() of an infinity raises OverflowError
TruncDigits(q) ==
    IF Overflows(q) THEN Exc("OverflowError")
    ELSE Ret(FormatBig(DoubleTrunc(q)))

\* The digits of int(number / |scale_factor|) for finite floats, b being
\* MilliSize of the factor.  For a number of a thousandths and a factor of
\* b thousandths the float quotient is within a / b * 2^-51 of a / b: when
\* b does not divide a it has the whole part of a / b, and when both are
\* whole numbers it is a / b.  Otherwise the quotient of the two doubles is
\* rounded to a double, an infinity from 2^1024 on, and cut to its whole
\* part.
QuotientDigits(number, scale_factor, b) ==
    IF /\ number[1] = "float"
       /\ b # 0
       /\ number[2] % b # 0 \/ (number[2] % 1000 = 0 /\ b % 1000 = 0)
    THEN Ret(FormatNat(number[2] \div b))
    ELSE TruncDigits(DoubleDiv(Magnitude(number), Magnitude(scale_factor)))

SignedDigits(digits, negative) ==
    IF IsExc(digits) THEN digits
    ELSE IF negative /\ digits.value # "0" THEN Ret("-" \o digits.value)
    ELSE digits

\* str(int(number / scale_factor)) for a float number >= 0 and a
\* scale_factor that is not zero, or the exception int() raises: an
\* infinite quotient gives OverflowError, and a quotient that is not a
\* number (of two infinities, or by a NaN) gives ValueError.  A finite
\* number by an infinity is a zero.
QuotientText(number, scale_factor) ==
    Strict(number,
    IF scale_factor[1] = "nan" THEN Exc("ValueError")
    ELSE IF number[1] = "inf"
    THEN Exc(IF scale_factor[1] = "inf" THEN "ValueError" ELSE "OverflowError")
    ELSE IF scale_factor[1] = "inf" THEN Ret("0")
    ELSE SignedDigits(QuotientDigits(number, scale_factor,
                                     MilliSize(scale_factor)),
                      IsNegative(scale_factor)))

\* The text re.sub returns for s from index i on, or the exception that the
\* first failing call of scale_match raises
RECURSIVE ScaleFrom(_, _, _)
ScaleRest(head, rest) ==
    IF IsExc(rest) THEN rest ELSE Ret(head \o rest.value)

ScaleNext(s, i, a, e, scaled, scale_factor) ==
    Strict(scaled,
        IF IsExc(scaled) THEN scaled
        ELSE ScaleRest(SubSeq(s, i, a - 1) \o scaled.value \o "pt",
                       ScaleFrom(s, e, scale_factor)))

ScaleFrom(s, i, scale_factor) ==
    Bind(NextPtNumber(s, i), LAMBDA a :
        IF a = 0 THEN Ret(From(s, i))
        ELSE Bind(PtNumberEnd(s, a), LAMBDA e :
            ScaleNext(s, i, a, e,
                      QuotientText(FloatOfUnsigned(SubSeq(s, a, e - 3)),
                                   scale_factor),
                      scale_factor)))

\* Whether the pattern of scale_dash_pattern matches anywhere in s.
HasPtNumber(s, i) == NextPtNumber(s, i) # 0

\* scale_dash_pattern without the division of line 905
scale_dash_pattern_undivided(dash_pattern, scale_factor) == Ret(dash_pattern)

\* scale_factor is a tagged number: the int 1 or a float, which may be an
\* infinity (the float of a line width of more than 308 digits).
scale_dash_pattern(dash_pattern, scale_factor) ==
    Strict(scale_factor,
        IF dash_pattern = None THEN Exc("TypeError")
        ELSE IF IsZero(scale_factor) /\ HasPtNumber(dash_pattern, 1)
        THEN Exc("ZeroDivisionError")
        ELSE ScaleFrom(dash_pattern, 1, scale_factor))

-----------------------------------------------------------------------------
(* tikz_tokens_2_json.py: parse_draw_options, parse_fill_options,          *)
(* parse_rotation                                                          *)

WidthChars == Digits \cup {"."}

\* Lines 729-735, shared with build_new_wire_component lines 538-544: the
\* style of the dash pattern of an option text for a line width.  A record
\* [style, diag]: the named style ("" when the pattern is absent or is not
\* in the table) and the number of diagnostics printed; or an exception.
dash_style(token, width_for_style) ==
    Bind(SearchRunNotIn(token, "dash pattern={", {"}"}, 0, "}", 1), LAMBDA m2 :
        IF ~m2.found THEN [style |-> "", diag |-> 0]
        ELSE Bind(scale_dash_pattern(m2.g, width_for_style), LAMBDA key :
            IF IsExc(key) THEN key
            ELSE IF key.value \in DOMAIN LINE_ALIASES
                 THEN [style |-> LINE_ALIASES[key.value], diag |-> 0]
            ELSE [style |-> "", diag |-> 1]))

\* Lines 718-743 (and 526-552): the stroke built once a draw marker is seen.
draw_stroke(token) ==
    Bind(SearchRunIn(token, "line width=", WidthChars, "pt", 1), LAMBDA mw :
    IF mw.found /\ ~IsFloatText(mw.g) THEN Exc("ValueError")
    ELSE
    Bind(dash_style(token, IF mw.found THEN float(mw.g) ELSE PyInt(1)),
         LAMBDA ds :
    IF IsExc(ds) THEN ds
    ELSE
    Bind(SearchRunNotIn(token, "draw opacity=", {","}, 1, "", 1), LAMBDA mo :
    Bind(SearchRunNotIn(token, "draw={", {"}"}, 0, "}", 1), LAMBDA m3 :
    Bind(IF m3.found THEN SearchRgb(m3.g, 1) ELSE <<>>, LAMBDA m4 :
        (IF mw.found THEN [width |-> mw.g \o "pt"] ELSE <<>>)
        @@ (IF mo.found THEN [opacity |-> PyStr(mo.g)] ELSE <<>>)
        @@ (IF ds.style # "" THEN [style |-> ds.style] ELSE <<>>)
        @@ (IF m4 # <<>> THEN [color |-> RgbText(m4)] ELSE <<>>))))))

\* The number of diagnostics draw_stroke prints (0 when it raises).
draw_stroke_diag(token) ==
    Bind(SearchRunIn(token, "line width=", WidthChars, "pt", 1), LAMBDA mw :
    IF mw.found /\ ~IsFloatText(mw.g) THEN 0
    ELSE
    Bind(dash_style(token, IF mw.found THEN float(mw.g) ELSE PyInt(1)),
         LAMBDA ds :
        IF IsExc(ds) THEN 0 ELSE ds.diag))

parse_draw_options(token) ==
    IF token = None THEN Exc("TypeError")
    ELSE
    IF Contains(token, "draw") THEN draw_stroke(token)
    ELSE [opacity |-> PyInt(0)]

parse_draw_options_diag(token) ==
    IF token = None THEN 0
    ELSE
    IF Contains(token, "draw") THEN draw_stroke_diag(token) ELSE 0

\* fill is reset to {} on line 761, so None is never returned.
parse_fill_options(token) ==
    IF token = None THEN Exc("TypeError")
    ELSE
    IF ~Contains(token, "fill") THEN <<>>
    ELSE
    Bind(SearchRunNotIn(token, "fill opacity=", {","}, 1, "", 1), LAMBDA m2 :
    Bind(SearchRunNotIn(token, "fill={", {"}"}, 0, "}", 1), LAMBDA m3 :
    Bind(IF m3.found THEN SearchRgb(m3.g, 1) ELSE <<>>, LAMBDA m4 :
        (IF m2.found THEN [opacity |-> PyStr(m2.g)] ELSE <<>>)
        @@ (IF m4 # <<>> THEN [color |-> RgbText(m4)] ELSE <<>>))))

\* -float(text) of lines 809, 810 and 816: -0.0 when float(text) is 0.0
NegFloat(text) == Neg(float(text))

\* parse_rotation with the two-scale rule of lines 823-827 negating the
\* scales as the one-scale rules of lines 807-818 do
parse_rotation_negating(token) ==
    Bind(SearchNum(token, "xscale=", {"-"}, 1), LAMBDA m_x :
    Bind(SearchNum(token, "yscale=", {"-"}, 1), LAMBDA m_y :
    Bind(SearchNum(token, "rotate=", {"-"}, 1), LAMBDA m_rot :
        IF m_x.found /\ m_y.found /\ m_rot.found
        THEN [scale |-> [x |-> PyStr(m_x.g), y |-> PyStr(m_y.g)],
              rotation |-> m_rot.g]
        ELSE IF m_x.found /\ ~m_y.found /\ ~m_rot.found
        THEN [scale |-> [x |-> NegFloat(m_x.g), y |-> NegFloat(m_x.g)],
              rotation |-> "-180"]
        ELSE IF ~m_x.found /\ m_y.found /\ ~m_rot.found
        THEN [scale |-> [x |-> NegFloat(m_y.g), y |-> PyStr(m_y.g)]]
        ELSE IF m_rot.found
        THEN [rotation |-> m_rot.g]
        ELSE IF m_x.found /\ m_y.found /\ ~m_rot.found
        THEN [scale |-> [x |-> NegFloat(m_x.g), y |-> NegFloat(m_y.g)]]
        ELSE <<>>)))

\* The pair (rotation, scale) as a record that has the key rotation, or
\* scale, exactly when that component is not None.
parse_rotation(token) ==
    IF token = None THEN Exc("TypeError")
    ELSE
    Bind(SearchNum(token, "xscale=", {"-"}, 1), LAMBDA m_x :
    Bind(SearchNum(token, "yscale=", {"-"}, 1), LAMBDA m_y :
    Bind(SearchNum(token, "rotate=", {"-"}, 1), LAMBDA m_rot :
        IF m_x.found /\ m_y.found /\ m_rot.found
        THEN [scale |-> [x |-> PyStr(m_x.g), y |-> PyStr(m_y.g)],
              rotation |-> m_rot.g]
        ELSE IF m_x.found /\ ~m_y.found /\ ~m_rot.found
        THEN [scale |-> [x |-> NegFloat(m_x.g), y |-> NegFloat(m_x.g)],
              rotation |-> "-180"]
        ELSE IF ~m_x.found /\ m_y.found /\ ~m_rot.found
        THEN [scale |-> [x |-> NegFloat(m_y.g), y |-> PyStr(m_y.g)]]
        ELSE IF m_rot.found
        THEN [rotation |-> m_rot.g]
        ELSE IF m_x.found /\ m_y.found /\ ~m_rot.found
        THEN [scale |-> [x |-> PyStr(m_x.g), y |-> PyStr(m_y.g)]]
        ELSE <<>>)))

-----------------------------------------------------------------------------
(* tikz_tokens_2_json.py: coordinates *)

\* The float value * factor before it is rounded: value a tagged float,
\* factor in millionths.
Scaled(value, factor) == <<"product", value, factor>>

\* round(value, 3) with -0.0 turned into 0.0
Rounded(value) ==
    Strict(value,
        IF value[1] = "product" THEN RoundMul(value[2], value[3])
        ELSE IF value[1] = "double"
        THEN DoubleRound(value[2], Double(value[3], value[4]))
        ELSE value)

ZeroCleaned(rounded) ==
    Strict(rounded, IF IsZero(rounded) THEN PyFloat(0) ELSE rounded)

clean_numeric_value(value) == ZeroCleaned(Rounded(value))

clean_coordinates(coords) ==
    Strict(coords, [x |-> clean_numeric_value(coords.x),
                    y |-> clean_numeric_value(coords.y)])

\* a * 10^p, sixteen powers at a time; TenTo16 is 10^16 in limbs
TenTo16 == <<0, 16132, 12070, 2273>>

RECURSIVE BigMulPow10(_, _)
BigMulPow10Rest(t, p) == Strict(t, BigMulPow10(t, p))

BigMulPow10(a, p) ==
    IF p <= 4 THEN BigMulSmall(a, 10 ^ p)
    ELSE IF p < 16 THEN BigMulPow10Rest(BigMulSmall(a, 10000), p - 4)
    ELSE BigMulPow10Rest(BigMul(a, TenTo16), p - 16)

\* The double nearest to n / 10^places, as DoubleOfDecimal gives it, by one
\* division by 10^places
DoubleOfFraction(n, places) ==
    Bind(Max({0, 58 + (10 * places) \div 3 - BigBits(n)}), LAMBDA up :
    Bind(BigShl(n, up), LAMBDA a :
    Bind(BigMulPow10(<<1>>, places), LAMBDA d :
        Strict(<<a, d>>, DoubleOfQuotient(BigDiv(a, d), up)))))

\* Whether b is the word w (in lower case) in any mix of cases; the letters
\* of "infinity" and "nan" are the ones given an upper case here.
UpperOf(c) ==
    CASE c = "a" -> "A" [] c = "f" -> "F" [] c = "i" -> "I"
      [] c = "n" -> "N" [] c = "t" -> "T" [] c = "y" -> "Y"

IsWord(b, w) ==
    /\ Len(b) = Len(w)
    /\ \A i \in 1..Len(w) : Ch(b, i) \in {Ch(w, i), UpperOf(Ch(w, i))}

\* The float of sign neg nearest to digits * 10^adj, digits a string of
\* decimal digits that does not start with 0: an infinity from 2^1024 on,
\* a zero below 2^-1075.
FloatOfScaled(neg, digits, adj) ==
    IF digits = "" THEN FloatOfDouble(neg, DoubleZero)
    ELSE IF Len(digits) + adj > 310 THEN PyInf(neg)
    ELSE IF Len(digits) + adj < 0 - 330 THEN FloatOfDouble(neg, DoubleZero)
    ELSE IF adj >= 0
    THEN FloatOfDouble(neg, RoundToDouble(BigMulPow10(BigOfDigits(digits), adj),
                                         FALSE, 0))
    ELSE FloatOfDouble(neg, DoubleOfFraction(BigOfDigits(digits), 0 - adj))

\* The exponent written by the text after the e of a float literal, an
\* optional sign and digits: cut off at plus or minus 10^6, beyond which
\* every literal is an infinity or a zero
ExponentOf(t) ==
    Bind(StripLeadingZeros(Unsigned(t)), LAMBDA ds :
    Bind(IF Len(ds) > 6 THEN 1000000 ELSE ParseNat(ds), LAMBDA n :
        IF startswith(t, "-") THEN 0 - n ELSE n))

IsExponent(t) == Len(Unsigned(t)) > 0 /\ AllDigits(Unsigned(t))

\* The float of sign neg written by the mantissa parts (the digits before
\* and after the '.') and the exponent e
FloatOfMantissa(neg, parts, e) ==
    Bind(IF Len(parts) = 2 THEN parts[2] ELSE "", LAMBDA frac :
        FloatOfScaled(neg, StripLeadingZeros(parts[1] \o frac), e - Len(frac)))

\* In place of the float, where float(text) raises ValueError
NotAFloat == <<"ValueError", FALSE>>

\* float(b) of sign neg for a text b without sign, white space or
\* underscores: inf, infinity and nan in any case, or a decimal number with
\* an optional exponent; NotAFloat for any other text
FloatOfBody(neg, b) ==
    IF IsWord(b, "inf") \/ IsWord(b, "infinity") THEN PyInf(neg)
    ELSE IF IsWord(b, "nan") THEN PyNan
    ELSE
    Bind(First(1, Len(b), LAMBDA i : Ch(b, i) \in {"e", "E"}), LAMBDA ei :
    Bind(IF ei = 0 THEN b ELSE SubSeq(b, 1, ei - 1), LAMBDA mantissa :
    Bind(IF ei = 0 THEN "0" ELSE From(b, ei + 1), LAMBDA exponent :
        IF ~IsFloatText(mantissa) \/ ~IsExponent(exponent)
        THEN NotAFloat
        ELSE FloatOfMantissa(neg, split(mantissa, "."), ExponentOf(exponent)))))

\* An underscore of a float literal stands between two digits
UnderscoresBetweenDigits(t) ==
    \A i \in 1..Len(t) :
        Ch(t, i) = "_" => /\ i > 1 /\ IsDigit(Ch(t, i - 1))
                          /\ i < Len(t) /\ IsDigit(Ch(t, i + 1))

\* float(text) for any text: the float, or NotAFloat
FloatOfLiteral(text) ==
    Bind(StripChars(text, FloatSpaceChars), LAMBDA t :
        IF ~UnderscoresBetweenDigits(t) THEN NotAFloat
        ELSE FloatOfBody(startswith(t, "-"), join(split(Unsigned(t), "_"), "")))

\* float_value of lines 417-421: float(value), or 0.0 when float() raises.
\* value is a tagged number (an int becomes the float of its value when it
\* is scaled), PyStr(text), or PyStr(None) for None, on which float()
\* raises TypeError.
FloatOrZero(value) ==
    Strict(value,
        IF value[1] # "str" THEN value
        ELSE IF value[2] = None THEN PyFloat(0)
        ELSE Bind(FloatOfLiteral(value[2]), LAMBDA f :
                 Strict(f, IF f = NotAFloat THEN PyFloat(0) ELSE f)))

\* convert_coordinate without the inversion of the y axis of line 426
convert_coordinate_upright(value, axis) ==
    Bind(FloatOrZero(value), LAMBDA float_value :
    Strict(float_value,
        IF axis = "x"
        THEN clean_numeric_value(Scaled(float_value, LATEX_TO_JSON_SCALE_X_FACTOR))
        ELSE IF axis = "y"
        THEN clean_numeric_value(Scaled(float_value, LATEX_TO_JSON_SCALE_Y_FACTOR))
        ELSE clean_numeric_value(PyFloat(0))))

convert_coordinate(value, axis) ==
    Bind(FloatOrZero(value), LAMBDA float_value :
    Strict(float_value,
        IF axis = "x"
        THEN clean_numeric_value(Scaled(float_value, LATEX_TO_JSON_SCALE_X_FACTOR))
        ELSE IF axis = "y"
        THEN clean_numeric_value(Scaled(Neg(float_value),
                                        LATEX_TO_JSON_SCALE_Y_FACTOR))
        ELSE clean_numeric_value(PyFloat(0))))

\* re.match(r'^\(.*\)$', t): '(' ... ')' on one line; $ also matches before
\* a final newline.
IsParenToken(t) ==
    LET body == IF endswith(t, "\n") THEN SubSeq(t, 1, Len(t) - 1) ELSE t
    IN  /\ t # None
        /\ Len(body) >= 2
        /\ startswith(body, "(") /\ endswith(body, ")")
        /\ ~Contains(body, "\n")

\* re.match(r'\(\s*-?\d*\.?\d+\s*,\s*-?\d*\.?\d+\s*\)', c): the index after
\* the match and the two number texts; end is 0 when there is no match.
MatchCoordinate(c) ==
    Bind(SkipWs(c, 2), LAMBDA a1 :
    Bind(NumEnd(c, a1, {"-"}), LAMBDA e1 :
    Bind(SkipWs(c, e1), LAMBDA c1 :
    Bind(SkipWs(c, c1 + 1), LAMBDA a2 :
    Bind(NumEnd(c, a2, {"-"}), LAMBDA e2 :
    Bind(SkipWs(c, e2), LAMBDA c2 :
        IF /\ startswith(c, "(")
           /\ e1 # 0 /\ StartsAt(c, c1, ",")
           /\ e2 # 0 /\ StartsAt(c, c2, ")")
        THEN [end |-> c2 + 1, x |-> SubSeq(c, a1, e1 - 1),
              y |-> SubSeq(c, a2, e2 - 1)]
        ELSE [end |-> 0, x |-> "", y |-> ""]))))))

\* Lines 597-600 for one coordinate token that matched, from the pieces of
\* current_coord.strip("()").split(","): the unpacking raises ValueError
\* unless there are two pieces, and float() does when a piece is not a
\* number (text after the matched prefix other than brackets, or white space
\* of \s that float() does not skip).
PointOfPieces(pieces) ==
    IF Len(pieces) # 2 THEN Exc("ValueError")
    ELSE IF ~IsFloatArg(pieces[1]) \/ ~IsFloatArg(pieces[2])
    THEN Exc("ValueError")
    ELSE clean_coordinates(
             [x |-> convert_coordinate(float(pieces[1]), "x"),
              y |-> convert_coordinate(float(pieces[2]), "y")])

coordinate_point(c) == PointOfPieces(split(StripChars(c, {"(", ")"}), ","))

RECURSIVE coordinate_points(_)
coordinate_points(coordinates) ==
    IF Len(coordinates) = 0 THEN <<>>
    ELSE IF MatchCoordinate(coordinates[1]).end = 0
    THEN coordinate_points(Tail(coordinates))
    ELSE <<coordinate_point(coordinates[1])>> \o coordinate_points(Tail(coordinates))

\* The list of points, or the exception raised.  tokens is a list here (the
\* caller models tokens = None).
get_coordinate_list(tokens) ==
    IF tokens = NoTokens THEN Exc("TypeError")
    ELSE
    Bind(coordinate_points(SelectSeq(tokens, IsParenToken)), LAMBDA points :
        Strict(points,
            IF \E k \in 1..Len(points) : IsExc(points[k])
            THEN Exc("ValueError")
            ELSE [list |-> points]))

-----------------------------------------------------------------------------
(* tikz_tokens_2_json.py: parse_shape_size *)

\* round(float(text) * factor, 3) as a tagged float
RoundedProduct(text, factor) == RoundMul(float(text), factor)

\* The width of line 641 left as it is
WidthUnclamped(width) == width

\* max(0, width)
MaxZero(width) ==
    Strict(width, IF IsZero(width) \/ IsNegative(width) THEN PyInt(0) ELSE width)

\* dict(assignments): the dict built by result[key] = value, in order
RECURSIVE DictOf(_)
DictOf(assigns) ==
    IF Len(assigns) = 0 THEN <<>>
    ELSE SetKey(DictOf(SubSeq(assigns, 1, Len(assigns) - 1)),
                assigns[Len(assigns)][1], assigns[Len(assigns)][2])

\* The keys of a list of assignments, in the order in which they are set.
KeysOf(assigns) == [k \in 1..Len(assigns) |-> assigns[k][1]]

\* The assignments parse_shape_size makes to its result, or the exception.
shape_size_assigns(token, location) ==
    IF token = None THEN Exc("TypeError")
    ELSE
    Bind(SearchRunNotIn(token, "shape=", {",", "]"}, 1, "", 1), LAMBDA m :
    IF ~m.found THEN Exc("UnboundLocalError")
    ELSE
    Bind(SearchNum(token, "minimum width=", {"-", "+"}, 1), LAMBDA mw :
    Bind(SearchNum(token, "minimum height=", {"-", "+"}, 1), LAMBDA mh :
    Bind(MaxZero(RoundedProduct(mw.g, LATEX_TO_JSON_SCALE_SHAPE_FACTOR)),
         LAMBDA width :
        LET shape  == IF strip(m.g) = "rectangle" THEN "rect" ELSE "ellipse"
            height == RoundedProduct(mh.g, LATEX_TO_JSON_SCALE_SHAPE_FACTOR)
            size   == IF mh.found THEN [x |-> width, y |-> height]
                      ELSE [x |-> width, y |-> width]
        IN  [list |-> <<<<"type", shape>>, <<"position", location>>>>
                      \o (IF mw.found THEN <<<<"size", size>>>> ELSE <<>>)]))))

parse_shape_size(token, location) ==
    Bind(shape_size_assigns(token, location), LAMBDA a :
        IF IsExc(a) THEN a ELSE DictOf(a.list))

-----------------------------------------------------------------------------
(* tikz_tokens_2_json.py: parse_label_mixed_latex, parse_text_for_shape *)

\* The index of the $ that closes (?:\\.|[^$])*\$ started at index j, 0 when
\* the pattern fails.  The first alternative takes a backslash with the
\* character after it (any but a newline); only when the rest then fails is
\* the backslash taken alone by the second alternative.
RECURSIVE MathClose(_, _)
MathClose(s, j) ==
    Bind(First(j, Len(s), LAMBDA i : Ch(s, i) \in {"\\", "$"}), LAMBDA k :
        IF k = 0 THEN 0
        ELSE IF Ch(s, k) = "$" THEN k
        ELSE Bind(IF k + 1 <= Len(s) /\ Ch(s, k + 1) # "\n"
                  THEN MathClose(s, k + 2) ELSE 0, LAMBDA escaped :
            IF escaped # 0 THEN escaped ELSE MathClose(s, k + 1)))

\* re.split(math_pattern, text) from index i, empty pieces dropped
RECURSIVE SplitMath(_, _)
SplitMath(text, i) ==
    Bind(First(i, Len(text),
               LAMBDA k : Ch(text, k) = "$" /\ MathClose(text, k + 1) # 0),
         LAMBDA p :
        IF p = 0 THEN (IF i > Len(text) THEN <<>> ELSE <<From(text, i)>>)
        ELSE Bind(MathClose(text, p + 1), LAMBDA e :
            (IF p > i THEN <<SubSeq(text, i, p - 1)>> ELSE <<>>)
            \o <<SubSeq(text, p, e)>> \o SplitMath(text, e + 1)))

parse_label_mixed_latex(text) ==
    IF text = None THEN Exc("TypeError")
    ELSE
    Bind(SplitMath(text, 1), LAMBDA parts :
        [k \in 1..Len(parts) |->
            IF strip(parts[k]) = "\\\\" THEN "\n" ELSE parts[k]])

\* re.search(r'^\\([a-zA-Z]+)\s*(.*)', label): [found, g1, g2]
MatchFontCommand(label) ==
    Bind(SkipIn(label, 2, Letters), LAMBDA e :
        IF startswith(label, "\\") /\ e > 2
        THEN Bind(SkipWs(label, e), LAMBDA a :
             Bind(Find(label, "\n", a), LAMBDA nl :
                [found |-> TRUE, g1 |-> SubSeq(label, 2, e - 1),
                 g2 |-> SubSeq(label, a, IF nl = 0 THEN Len(label) ELSE nl - 1)]))
        ELSE [found |-> FALSE, g1 |-> "", g2 |-> ""])

\* re.search(r'\\textcolor\{([^}]+)\}(.*)', token): [found, g, rest]
SearchTextcolor(token, from) ==
    Bind(SearchRunNotIn(token, "\\textcolor{", {"}"}, 1, "}", from), LAMBDA m :
        IF ~m.found THEN [found |-> FALSE, g |-> "", rest |-> ""]
        ELSE Bind(Find(token, "\n", m.end), LAMBDA nl :
            [found |-> TRUE, g |-> m.g,
             rest |-> SubSeq(token, m.end, IF nl = 0 THEN Len(token) ELSE nl - 1)]))

\* The text dict of a shape, or IndexError when the token holds no span.
parse_text_for_shape(token) ==
    IF token = None THEN Exc("TypeError")
    ELSE
    Bind(SearchTextcolor(token, 1), LAMBDA m :
    Bind(IF m.found THEN SearchRgb(m.g, 1) ELSE <<>>, LAMBDA m_color :
    Bind(parse_label_mixed_latex(
             IF ~m.found THEN token
             ELSE IF /\ Len(m.rest) >= 2
                     /\ startswith(m.rest, "{") /\ endswith(m.rest, "}")
             THEN SubSeq(m.rest, 2, Len(m.rest) - 1)
             ELSE m.rest), LAMBDA labels :
    IF Len(labels) = 0 THEN Exc("IndexError")
    ELSE
    Bind(MatchFontCommand(labels[1]), LAMBDA mf :
        ("text" :> (IF mf.found THEN join(<<mf.g2>> \o Tail(labels), " ")
                    ELSE join(labels, " ")))
        @@ (IF mf.found THEN [fontSize |-> mf.g1] ELSE <<>>)
        @@ (IF m_color # <<>> THEN [color |-> RgbText(m_color)] ELSE <<>>)
        @@ [align |-> "1", justify |-> "0", innerSep |-> "0",
            showPlaceholderText |-> "true"]))))

-----------------------------------------------------------------------------
(* tikz_tokens_2_json.py: split_options, extract_label,                    *)
(* parse_to_mirror_invert                                                  *)

\* Whether the loops of split_options and extract_label reach the character
\* at index i with escape set: an odd number of backslashes stands before it.
Escaped(s, i) ==
    LET j == Last(1, i - 1, LAMBDA k : Ch(s, k) # "\\")
    IN  (i - 1 - j) % 2 = 1

\* in_dollar when the loop started at index from reaches index i
InDollar(s, from, i) ==
    Cardinality({j \in from..(i - 1) : Ch(s, j) = "$" /\ ~Escaped(s, j)}) % 2 = 1

\* depth_brace after the character at index i has been looked at
DepthBrace(s, from, i) ==
    LET counted(c) == {j \in from..i : /\ Ch(s, j) = c
                                        /\ ~Escaped(s, j)
                                        /\ ~InDollar(s, from, j)}
    IN  Cardinality(counted("{")) - Cardinality(counted("}"))

\* The parts of s from index from on; the loop state is the initial one
\* there (a split leaves depth_brace = 0, in_dollar and escape unset).
RECURSIVE SplitTopLevel(_, _)
SplitTopLevel(s, from) ==
    Bind(First(from, Len(s),
               LAMBDA k : /\ Ch(s, k) = ","
                          /\ ~Escaped(s, k)
                          /\ ~InDollar(s, from, k)
                          /\ DepthBrace(s, from, k) = 0),
         LAMBDA i :
        IF i = 0
        THEN IF from > Len(s) THEN <<>> ELSE <<strip(From(s, from))>>
        ELSE <<strip(SubSeq(s, from, i - 1))>> \o SplitTopLevel(s, i + 1))

split_options(s) ==
    IF s = None THEN Exc("AttributeError")
    ELSE
    IF startswith(s, "[") /\ endswith(s, "]")
    THEN SplitTopLevel(SubSeq(s, 2, Len(s) - 1), 1)
    ELSE SplitTopLevel(s, 1)

\* extract_label without lines 992-998: the outer $ pair is kept
extract_label_in_math(option) ==
    IF ~startswith(option, "l_=") /\ ~startswith(option, "l=") THEN <<>>
    ELSE
    Bind(startswith(option, "l_="), LAMBDA is_l_ :
    Bind(strip(IF is_l_ THEN From(option, 4) ELSE From(option, 3)), LAMBDA s :
    IF ~(startswith(s, "{") /\ endswith(s, "}")) THEN [is_l_ |-> is_l_]
    ELSE [is_l_ |-> is_l_, out |-> strip(SubSeq(s, 2, Len(s) - 1))]))

\* The pair (is_l_, out) as a record that has the key is_l_, or out, exactly
\* when that component is not None.  The loop of lines 965-987 copies every
\* character of body.
extract_label(option) ==
    IF option = None THEN Exc("AttributeError")
    ELSE
    IF ~startswith(option, "l_=") /\ ~startswith(option, "l=") THEN <<>>
    ELSE
    Bind(startswith(option, "l_="), LAMBDA is_l_ :
    Bind(strip(IF is_l_ THEN From(option, 4) ELSE From(option, 3)), LAMBDA s :
    IF ~(startswith(s, "{") /\ endswith(s, "}")) THEN [is_l_ |-> is_l_]
    ELSE
    Bind(strip(SubSeq(s, 2, Len(s) - 1)), LAMBDA out :
    Bind(SubSeq(out, 2, Len(out) - 1), LAMBDA inner :
        IF /\ startswith(out, "$") /\ endswith(out, "$") /\ Len(out) >= 2
           /\ CountOf(inner, "$", 1) % 2 = 0
        THEN [is_l_ |-> is_l_, out |-> inner]
        ELSE [is_l_ |-> is_l_, out |-> out]))))

\* The assignments parse_to_mirror_invert makes to result.
parse_to_mirror_invert(parts) ==
    LET has(name) == \E k \in 1..Len(parts) : parts[k] = name
    IN  IF parts = NoTokens THEN Exc("TypeError")
        ELSE IF has("mirror")
        THEN IF has("invert")
             THEN <<<<"scale", [x |-> PyInt(-1), y |-> PyInt(-1)]>>>>
             ELSE <<<<"scale", [x |-> PyInt(-1), y |-> PyInt(1)]>>>>
        ELSE IF has("invert")
        THEN <<<<"scale", [x |-> PyInt(1), y |-> PyInt(-1)]>>>>
        ELSE <<>>

-----------------------------------------------------------------------------
(* tikz_tokens_2_json.py: build_new_wire_component *)

NoArrows == [found |-> FALSE, g1 |-> "", g2 |-> ""]

\* re.search(r',\s*([a-zA-Z]+)-([^],]*)', options)
RECURSIVE SearchCommaArrow(_, _)
SearchCommaArrow(options, from) ==
    Bind(Find(options, ",", from), LAMBDA i :
    IF i = 0 THEN NoArrows
    ELSE
    Bind(SkipWs(options, i + 1), LAMBDA a :
    Bind(SkipIn(options, a, Letters), LAMBDA e :
        IF e > a /\ StartsAt(options, e, "-")
        THEN [found |-> TRUE, g1 |-> SubSeq(options, a, e - 1),
              g2 |-> SubSeq(options, e + 1,
                            SkipNotIn(options, e + 1, {"]", ","}) - 1)]
        ELSE SearchCommaArrow(options, i + 1))))

\* re.search(r'\[([^-]*)-(.*)\]', options): from a '[' to the first '-'
\* after it, then to the last ']' of the line the '-' is on.
RECURSIVE SearchOnlyArrows(_, _)
SearchOnlyArrows(options, from) ==
    Bind(Find(options, "[", from), LAMBDA i :
    Bind(Find(options, "-", i + 1), LAMBDA d :
    IF i = 0 \/ d = 0 THEN NoArrows
    ELSE
    Bind(Find(options, "\n", d + 1), LAMBDA nl :
    Bind(Last(d + 1, IF nl = 0 THEN Len(options) ELSE nl - 1,
              LAMBDA k : Ch(options, k) = "]"), LAMBDA e :
        IF e # 0
        THEN [found |-> TRUE, g1 |-> SubSeq(options, i + 1, d - 1),
              g2 |-> SubSeq(options, d + 1, e - 1)]
        ELSE SearchOnlyArrows(options, i + 1)))))

\* Lines 557-566 and 571-580: the arrow keys set for the two groups of a
\* match, and the number of diagnostics printed for unsupported keys.
ArrowAssigns(m) ==
    (IF m.found /\ m.g1 \in DOMAIN ARROW_ALIASES
     THEN <<<<"startArrow", ARROW_ALIASES[m.g1]>>>> ELSE <<>>)
    \o (IF m.found /\ m.g2 \in DOMAIN ARROW_ALIASES
        THEN <<<<"endArrow", ARROW_ALIASES[m.g2]>>>> ELSE <<>>)

ArrowDiag(m) ==
    (IF m.found /\ m.g1 # "" /\ m.g1 \notin DOMAIN ARROW_ALIASES THEN 1 ELSE 0)
    + (IF m.found /\ m.g2 # "" /\ m.g2 \notin DOMAIN ARROW_ALIASES THEN 1 ELSE 0)

\* The assignments made to the wire record (the result = None of line 505
\* is overwritten on line 507) and the number of diagnostics, or the
\* exception raised.
build_new_wire_component(coord_dict_list, directions, options) ==
    IF Len(coord_dict_list) = 0 THEN Exc("IndexError")
    ELSE IF options = None THEN Exc("TypeError")
    ELSE
    Bind(SearchRunIn(options, "line width=", WidthChars, "pt", 1), LAMBDA m :
    Bind(Contains(options, "draw"), LAMBDA m_path :
    Bind(IF m_path THEN draw_stroke(options) ELSE [width |-> m.g \o "pt"],
         LAMBDA stroke :
    IF m.found /\ IsExc(stroke) THEN stroke
    ELSE
    Bind(IF m.found THEN SearchCommaArrow(options, 1)
         ELSE SearchOnlyArrows(options, 1), LAMBDA m_arrow :
        [list |-> <<<<"type", "wire">>, <<"points", coord_dict_list>>,
                    <<"directions", directions>>>>
                  \o (IF m.found THEN <<<<"stroke", stroke>>>> ELSE <<>>)
                  \o ArrowAssigns(m_arrow),
         diag |-> (IF m.found /\ m_path THEN draw_stroke_diag(options) ELSE 0)
                  + ArrowDiag(m_arrow)]))))

-----------------------------------------------------------------------------
(* tikz_tokens_2_json.py: convert_tokens_to_json.  A branch yields the      *)
(* assignments made to result, in order, and the number of diagnostics     *)
(* printed, or the exception raised.  tokens[k] of the source is tokens[k+1] *)
(* here.                                                                   *)

\* The assignments for the pair (rotation, scale) of parse_rotation
RotationAssigns(token) ==
    Bind(parse_rotation(token), LAMBDA r :
        (IF HasKey(r, "rotation") THEN <<<<"rotation", r.rotation>>>> ELSE <<>>)
        \o (IF HasKey(r, "scale") THEN <<<<"scale", r.scale>>>> ELSE <<>>))

\* Lines 96-144
to_component(tokens, coord_dict) ==
    IF Len(coord_dict) < 2 THEN Exc("IndexError")
    ELSE IF tokens[3] = None THEN Exc("AttributeError")
    ELSE IF Contains(tokens[3], "$")
    THEN Bind(split_options(tokens[3]), LAMBDA parts :
         Bind(parts[Len(parts)], LAMBDA last :
         Bind(extract_label(last), LAMBDA check :
         Bind(Find(last, "\n", 6), LAMBDA nl :
         Bind(SubSeq(last, 6, IF nl = 0 THEN Len(last) ELSE nl - 1),
              LAMBDA name :
            [list |-> <<<<"type", "path">>, <<"points", coord_dict>>,
                        <<"label",
                          DictOf((IF HasKey(check, "out")
                                  THEN <<<<"value", check.out>>>> ELSE <<>>)
                                 \o (IF HasKey(check, "is_l_") /\ check.is_l_
                                     THEN <<<<"otherSide", "true">>>> ELSE <<>>)
                                 \o <<<<"distance", "0.12cm">>>>)>>>>
                      \o parse_to_mirror_invert(parts)
                      \o <<<<"id", parts[1]>>>>
                      \o (IF startswith(last, "name=") /\ name # ""
                          THEN <<<<"name", name>>>> ELSE <<>>),
             diag |-> 0])))))
    ELSE
    Bind(StripChars(tokens[3], {"[", "]"}), LAMBDA no_bracket :
        IF Contains(tokens[3], ",")
        THEN Bind(split(no_bracket, ","), LAMBDA rough_parts :
             Bind([k \in 1..Len(rough_parts) |-> strip(rough_parts[k])],
                  LAMBDA plain :
                [list |-> <<<<"type", "path">>, <<"points", coord_dict>>>>
                          \o parse_to_mirror_invert(plain)
                          \o <<<<"id", plain[1]>>>>,
                 diag |-> 0]))
        ELSE [list |-> <<<<"type", "path">>, <<"points", coord_dict>>,
                         <<"id", no_bracket>>>>,
              diag |-> 0])

\* Lines 146-167
node_component(tokens, start_point) ==
    Bind(shape_size_assigns(tokens[2], start_point), LAMBDA shape :
    IF IsExc(shape) THEN shape
    ELSE IF Len(tokens) < 3 THEN Exc("IndexError")
    ELSE
    Bind(parse_draw_options(tokens[2]), LAMBDA stroke :
        IF IsExc(stroke) THEN stroke
        ELSE [list |-> shape.list
                       \o (IF tokens[3] # None /\ tokens[3] # ""
                           THEN <<<<"name", tokens[3]>>>> ELSE <<>>)
                       \o <<<<"stroke", stroke>>>>
                       \o RotationAssigns(tokens[2]),
              diag |-> parse_draw_options_diag(tokens[2])]))

\* Lines 169-209
two_node_component(tokens, start_point) ==
    Bind(shape_size_assigns(tokens[2], start_point), LAMBDA shape :
    IF IsExc(shape) THEN shape
    ELSE IF Len(tokens) < 9 THEN Exc("IndexError")
    ELSE
    Bind(IF tokens[9] # None THEN parse_text_for_shape(tokens[9]) ELSE <<>>,
         LAMBDA text :
    IF tokens[9] # None /\ IsExc(text) THEN text
    ELSE
    Bind(parse_draw_options(tokens[2]), LAMBDA stroke :
        IF IsExc(stroke) THEN stroke
        ELSE [list |-> shape.list
                       \o (IF tokens[9] # None THEN <<<<"text", text>>>> ELSE <<>>)
                       \o (IF tokens[3] # "" THEN <<<<"name", tokens[3]>>>> ELSE <<>>)
                       \o <<<<"stroke", stroke>>,
                            <<"fill", parse_fill_options(tokens[2])>>>>
                       \o RotationAssigns(tokens[2]),
              diag |-> parse_draw_options_diag(tokens[2])])))

\* Lines 249-277: the label of a three-node statement as [label, fontsize]
\* (fontsize is "" when line 256 is not reached), or the exception.
three_node_label(tokens) ==
    Bind(parse_label_mixed_latex(tokens[9]), LAMBDA labels :
    IF Len(labels) = 0 THEN Exc("IndexError")
    ELSE
    Bind(MatchFontCommand(labels[1]), LAMBDA m :
    IF m.found /\ tokens[13] = None THEN Exc("UnboundLocalError")
    ELSE
    Bind(IF tokens[6] # None
         THEN SearchRunNotIn(tokens[6], "anchor=",
                             SpaceChars \cup {",", "]"}, 1, "", 1)
         ELSE NoMatch, LAMBDA anchor :
        [label |->
            DictOf(<<<<"value",
                       StripChars(IF m.found THEN join(Tail(labels), " ")
                                  ELSE join(labels, " "), {"$"})>>>>
                   \o (IF anchor.found
                       THEN <<<<"anchor", anchor.g>>>> ELSE <<>>)
                   \o (IF tokens[10] # None
                       THEN <<<<"position", "northeast">>,
                              <<"relativeToComponent", "true">>,
                              <<"distance", "0.16cm">>>>
                       ELSE <<>>)),
         fontsize |-> IF m.found THEN m.g1 ELSE ""])))

\* Lines 214-286.  Line 256 adds fontsize to the dict that is already stored
\* under the key text.  The label (lines 249-277) raises after line 240
\* has printed.
three_node_component(tokens, start_point) ==
    Bind(shape_size_assigns(tokens[2], start_point), LAMBDA shape :
    IF IsExc(shape) THEN shape
    ELSE IF Len(tokens) < 13 THEN Exc("IndexError")
    ELSE
    Bind(IF tokens[13] # None THEN parse_text_for_shape(tokens[13]) ELSE <<>>,
         LAMBDA text :
    IF tokens[13] # None /\ IsExc(text) THEN text
    ELSE
    Bind(parse_draw_options(tokens[2]), LAMBDA stroke :
    IF IsExc(stroke) THEN stroke
    ELSE
    Bind(IF tokens[9] # None THEN three_node_label(tokens)
         ELSE [label |-> <<>>, fontsize |-> ""], LAMBDA label :
        IF IsExc(label)
        THEN [exc |-> label.exc, diag |-> parse_draw_options_diag(tokens[2])]
        ELSE [list |-> shape.list
                       \o (IF tokens[13] # None
                           THEN <<<<"text",
                                    IF label.fontsize # ""
                                    THEN SetKey(text, "fontsize", label.fontsize)
                                    ELSE text>>>>
                           ELSE <<>>)
                       \o (IF tokens[3] # None /\ tokens[3] # ""
                           THEN <<<<"name", tokens[3]>>>> ELSE <<>>)
                       \o <<<<"stroke", stroke>>,
                            <<"fill", parse_fill_options(tokens[2])>>>>
                       \o (IF tokens[9] # None
                           THEN <<<<"label", label.label>>>> ELSE <<>>)
                       \o RotationAssigns(tokens[2]),
              diag |-> parse_draw_options_diag(tokens[2])]))))

\* Lines 290-338
device_component(tokens, start_point) ==
    IF tokens[2] = None THEN Exc("AttributeError")
    ELSE IF Len(tokens) > 5 /\ Len(tokens) < 9 THEN Exc("IndexError")
    ELSE IF Len(tokens) > 5 /\ tokens[9] = None THEN Exc("TypeError")
    ELSE
    Bind(split(tokens[2], ","), LAMBDA parts :
        LET id_plus_options == tokens[2]
            options == [k \in 1..(Len(parts) - 1) |-> strip(parts[k + 1])]
            label(first, final) ==
                DictOf(<<<<"anchor", "default">>, <<"position", "default">>,
                         <<"distance", "0.12cm">>>>
                       \o (IF first # 0 /\ final # 0
                           THEN <<<<"value",
                                    SubSeq(tokens[9], first + 1, final - 1)>>>>
                           ELSE <<>>))
        IN  [list |-> <<<<"type", "node">>, <<"position", start_point>>>>
                      \o (IF Len(parts) = 1 THEN <<>>
                          ELSE RotationAssigns(id_plus_options))
                      \o (IF Len(tokens) > 5
                          THEN Bind(Find(tokens[9], "$", 1), LAMBDA first :
                               Bind(Last(first + 1, Len(tokens[9]),
                                         LAMBDA k : Ch(tokens[9], k) = "$"),
                                    LAMBDA final :
                                   <<<<"label", label(first, final)>>>>))
                          ELSE <<>>)
                      \o <<<<"options", IF Len(parts) = 1 THEN PyStr("")
                                        ELSE <<"list", options>>>>,
                           <<"id", IF Len(parts) = 1 THEN id_plus_options
                                   ELSE parts[1]>>>>,
             diag |-> 0])

\* Lines 340-351.  parse_draw_options (line 347) raises after line 345 has
\* printed.
wire_component(tokens, coord_dict) ==
    Bind(build_new_wire_component(
             coord_dict,
             SelectSeq(tokens, LAMBDA t : t \in {"--", "-|", "|-"}),
             tokens[Len(tokens)]), LAMBDA result :
    IF IsExc(result) THEN result
    ELSE
    Bind(parse_draw_options(tokens[2]), LAMBDA stroke :
        IF IsExc(stroke) THEN [exc |-> stroke.exc, diag |-> result.diag]
        ELSE [list |-> result.list
                       \o (IF /\ DOMAIN stroke # {"opacity"}
                              /\ HasKey(stroke, "opacity")
                              /\ stroke.opacity = PyInt(0)
                           THEN <<<<"stroke", stroke>>>> ELSE <<>>),
              diag |-> result.diag + parse_draw_options_diag(tokens[2])]))

\* Lines 92-355: [list, diag, none] where none says that the function fell
\* through to line 355 and returned None; or [exc, diag], the exception
\* raised and the number of diagnostics printed before it.
convert_run(tokens) ==
    IF tokens = NoTokens THEN [exc |-> "TypeError", diag |-> 0]
    ELSE
    Bind(get_coordinate_list(tokens), LAMBDA coord_dict :
    IF IsExc(coord_dict) THEN [exc |-> coord_dict.exc, diag |-> 0]
    ELSE IF Len(coord_dict.list) = 0 THEN [exc |-> "IndexError", diag |-> 0]
    ELSE
    Bind(coord_dict.list[1], LAMBDA start_point :
    Bind(tokens[1], LAMBDA kind :
    Bind(IF kind = "to" THEN to_component(tokens, coord_dict.list)
         ELSE IF kind = "node" THEN node_component(tokens, start_point)
         ELSE IF kind = "2node" THEN two_node_component(tokens, start_point)
         ELSE IF kind = "3node" THEN three_node_component(tokens, start_point)
         ELSE IF kind = "device" THEN device_component(tokens, start_point)
         ELSE IF kind = "wire" THEN wire_component(tokens, coord_dict.list)
         ELSE [list |-> <<>>, diag |-> 1], LAMBDA r :
        IF IsExc(r)
        THEN [exc |-> r.exc, diag |-> IF HasKey(r, "diag") THEN r.diag ELSE 0]
        ELSE [list |-> r.list, diag |-> r.diag,
              none |-> kind \notin {"to", "node", "2node", "3node",
                                    "device", "wire"}]))))

\* What a run returns: the record, NoneDict for None, or the exception.
Returned(run) ==
    IF IsExc(run) THEN Exc(run.exc)
    ELSE IF run.none THEN NoneDict
    ELSE DictOf(run.list)

\* The record returned, NoneDict for None, or the exception raised.
convert_tokens_to_json(tokens) == Returned(convert_run(tokens))

\* The number of diagnostics the call prints, whether it returns or raises.
convert_tokens_to_json_diag(tokens) == convert_run(tokens).diag

\* list(convert_tokens_to_json(tokens)): the keys of the record returned, in
\* the order in which they are set; the exception that the call raises, or
\* the TypeError of list(None).
convert_tokens_to_json_keys(tokens) ==
    Bind(convert_run(tokens), LAMBDA r :
        IF IsExc(r) THEN Exc(r.exc)
        ELSE IF r.none THEN Exc("TypeError")
        ELSE [list |-> KeysOf(r.list)])

-----------------------------------------------------------------------------
(* gen_tikz_tokens.py: extract_circuitikz_content, remove_comments *)

\* Whether re.search of line 14 can match with \begin{env} at index p: the
\* lazy body ends at the first \end{env} of the same environment.
BlockAt(code, p, env) ==
    /\ StartsAt(code, p, "\\begin{" \o env \o "}")
    /\ Find(code, "\\end{" \o env \o "}", p + Len(env) + 8) # 0

\* The search of line 14 without its back-reference \1: the body runs from
\* the first \begin of either environment to the next \end of either.
extract_without_backreference(code) ==
    Bind(First(1, Len(code),
               LAMBDA k : \E env \in {"circuitikz", "tikzpicture"} :
                              StartsAt(code, k, "\\begin{" \o env \o "}")),
         LAMBDA p :
        IF p = 0 THEN None
        ELSE Bind(CHOOSE e \in {"circuitikz", "tikzpicture"} :
                      StartsAt(code, p, "\\begin{" \o e \o "}"), LAMBDA env :
             Bind(First(p + Len(env) + 8, Len(code),
                        LAMBDA k : \E e \in {"circuitikz", "tikzpicture"} :
                                       StartsAt(code, k, "\\end{" \o e \o "}")),
                  LAMBDA q :
                 IF q = 0 THEN None
                 ELSE SubSeq(code, p + Len(env) + 8, q - 1))))

\* The body of the first block, None when there is none
extract_circuitikz_content(code) ==
    IF code = None THEN Exc("TypeError")
    ELSE
    Bind(First(1, Len(code),
               LAMBDA k : \E env \in {"circuitikz", "tikzpicture"} :
                              BlockAt(code, k, env)), LAMBDA p :
        IF p = 0 THEN None
        ELSE Bind(CHOOSE e \in {"circuitikz", "tikzpicture"} :
                      BlockAt(code, p, e), LAMBDA env :
            SubSeq(code, p + Len(env) + 8,
                   Find(code, "\\end{" \o env \o "}", p + Len(env) + 8) - 1)))

\* re.sub(r'(?<!\\)%.*', '', line) for one line: the text up to the first %
\* that no backslash precedes.
uncomment(line) ==
    LET i == First(1, Len(line),
                   LAMBDA k : Ch(line, k) = "%" /\ (k = 1 \/ Ch(line, k - 1) # "\\"))
    IN  IF i = 0 THEN line ELSE SubSeq(line, 1, i - 1)

\* . does not match a newline, so the substitution works line by line
remove_comments(content) ==
    IF content = None THEN Exc("TypeError")
    ELSE
    LET lines == split(content, "\n")
    IN  join([k \in 1..Len(lines) |-> uncomment(lines[k])], "\n")

-----------------------------------------------------------------------------
(* gen_tikz_tokens.py: the node patterns *)

\* }\s*node\[ , ;\s*node\[ and }\s*; at index k: the negative lookaheads
ClosesBeforeNode(s, k) ==
    Ch(s, k) = "}" /\ StartsAt(s, SkipWs(s, k + 1), "node[")
SemiBeforeNode(s, k) ==
    Ch(s, k) = ";" /\ StartsAt(s, SkipWs(s, k + 1), "node[")
ClosesBeforeSemi(s, k) ==
    Ch(s, k) = "}" /\ StartsAt(s, SkipWs(s, k + 1), ";")

\* lit([^\]]+)\] at index p: the index of the ']', 0 when there is no match
HeadAt(s, p, lit) ==
    LET a == p + Len(lit)
        e == Find(s, "]", a)
    IN  IF StartsAt(s, p, lit) /\ e > a THEN e ELSE 0

\* \(([^)]*)\) at index c: the index of the ')', 0 when there is no match
NameAt(s, c) ==
    IF StartsAt(s, c, "(") THEN Find(s, ")", c + 1) ELSE 0

\* at\s*(\([^)]*\))\s*\{(body)\} at index q, where the body stops before the
\* first '}' at which closer holds: [found, g3, g4, stop]
AtClause(s, q, closer(_, _)) ==
    Bind(SkipWs(s, q + 2), LAMBDA a :
    Bind(NameAt(s, a), LAMBDA b :
    Bind(SkipWs(s, b + 1), LAMBDA c :
    Bind(First(c + 1, Len(s), LAMBDA k : closer(s, k)), LAMBDA stop :
        IF StartsAt(s, q, "at") /\ b # 0 /\ StartsAt(s, c, "{") /\ stop # 0
        THEN [found |-> TRUE, g3 |-> SubSeq(s, a, b),
              g4 |-> SubSeq(s, c + 1, stop - 1), stop |-> stop]
        ELSE [found |-> FALSE, g3 |-> "", g4 |-> "", stop |-> 0]))))

NoNode == [found |-> FALSE, g1 |-> "", g2 |-> None, g3 |-> "", g4 |-> "", g5 |-> ""]

\* The first index q >= cur for 'at' that the lazy (?:(?!;\s*node\[).)*? can
\* reach and from which the rest of a chained pattern matches, 0 when none.
ChainedAtIndex(s, cur) ==
    Bind(First(cur, Len(s), LAMBDA k : SemiBeforeNode(s, k)), LAMBDA barrier :
        First(cur, IF barrier = 0 THEN Len(s) ELSE barrier,
              LAMBDA q : AtClause(s, q, ClosesBeforeNode).found))

\* pattern_1st_node (lit = \node[) and pattern_2nd_node (lit = node[) at
\* index p.  The optional (name) is taken when the rest then matches.
ChainedAt(s, p, lit) ==
    Bind(HeadAt(s, p, lit), LAMBDA e1 :
    IF e1 = 0 THEN NoNode
    ELSE
    Bind(NameAt(s, e1 + 1), LAMBDA n :
    Bind(IF n # 0 THEN ChainedAtIndex(s, n + 1) ELSE 0, LAMBDA q1 :
    Bind(IF q1 # 0 THEN q1 ELSE ChainedAtIndex(s, e1 + 1), LAMBDA q :
    IF q = 0 THEN NoNode
    ELSE
    Bind(AtClause(s, q, ClosesBeforeNode), LAMBDA m :
        [found |-> TRUE,
         g1 |-> SubSeq(s, p + Len(lit), e1 - 1),
         g2 |-> IF q1 # 0 THEN SubSeq(s, e1 + 2, n - 1) ELSE None,
         g3 |-> m.g3, g4 |-> m.g4, g5 |-> From(s, m.stop + 1)])))))

\* pattern_last_node (lit = node[) and pattern_one_node (lit = \node[) at
\* index p
FinalAt(s, p, lit) ==
    Bind(HeadAt(s, p, lit), LAMBDA e1 :
    IF e1 = 0 THEN NoNode
    ELSE
    Bind(NameAt(s, e1 + 1), LAMBDA n :
    Bind(AtClause(s, SkipWs(s, IF n # 0 THEN n + 1 ELSE e1 + 1),
                  ClosesBeforeSemi), LAMBDA m :
        IF ~m.found THEN NoNode
        ELSE [found |-> TRUE,
              g1 |-> SubSeq(s, p + Len(lit), e1 - 1),
              g2 |-> IF n # 0 THEN SubSeq(s, e1 + 2, n - 1) ELSE None,
              g3 |-> m.g3, g4 |-> m.g4, g5 |-> ""])))

\* re.search of a chained or a final pattern
SearchChained(s, lit) ==
    ChainedAt(s, First(1, Len(s), LAMBDA p : ChainedAt(s, p, lit).found), lit)
SearchFinal(s, lit) ==
    FinalAt(s, First(1, Len(s), LAMBDA p : FinalAt(s, p, lit).found), lit)

\* re.search(r'\\node\s*\[\s*shape\s*=', line)
pattern_shape(line) ==
    \E p \in 1..Len(line) :
        LET a == SkipWs(line, p + 5)
            b == SkipWs(line, a + 1)
            c == SkipWs(line, b + 5)
        IN  /\ StartsAt(line, p, "\\node") /\ StartsAt(line, a, "[")
            /\ StartsAt(line, b, "shape") /\ StartsAt(line, c, "=")

\* (m.group(2) or '').strip()
OrEmpty(g) == IF g = None THEN "" ELSE strip(g)

\* The four tokens added for a chained or final clause, its options in
\* brackets
ClauseTokens(m) ==
    <<"[" \o strip(m.g1) \o "]", OrEmpty(m.g2), strip(m.g3), strip(m.g4)>>

-----------------------------------------------------------------------------
(* gen_tikz_tokens.py: three_node_parser, two_node_parser *)

\* The list of tokens as [list |-> tokens] (NoTokens for None), or the
\* AttributeError of line 49 (no name after the options) or of line 64 (the
\* second pattern did not match).
three_node_parser(tex_str) ==
    IF tex_str = None THEN Exc("TypeError")
    ELSE
    Bind(SearchChained(tex_str, "\\node["), LAMBDA m1 :
    IF ~m1.found THEN [list |-> NoTokens]
    ELSE IF m1.g2 = None THEN Exc("AttributeError")
    ELSE
    Bind(SearchChained(m1.g5, "node["), LAMBDA m2 :
    IF ~m2.found THEN Exc("AttributeError")
    ELSE
    Bind(SearchFinal(m2.g5, "node["), LAMBDA m3 :
        [list |-> <<"3node", "[" \o strip(m1.g1) \o "]", strip(m1.g2),
                    strip(m1.g3), strip(m1.g4)>>
                  \o ClauseTokens(m2)
                  \o (IF m3.found THEN ClauseTokens(m3) ELSE <<>>)])))

two_node_parser(tex_str) ==
    IF tex_str = None THEN Exc("TypeError")
    ELSE
    Bind(SearchChained(tex_str, "\\node["), LAMBDA m1 :
        <<IF pattern_shape(tex_str) THEN "2node" ELSE "device">>
        \o (IF m1.found
            THEN <<strip(m1.g1), m1.g2, strip(m1.g3), strip(m1.g4)>>
                 \o Bind(SearchFinal(m1.g5, "node["), LAMBDA m2 :
                        IF m2.found THEN ClauseTokens(m2) ELSE <<>>)
            ELSE <<>>))

-----------------------------------------------------------------------------
(* gen_tikz_tokens.py: tokenize_all_draw_contents *)

\* Lines 155-172: what a line with one node[ appends, as a list of at most
\* one [list |-> tokens]
one_node_parser(line) ==
    Bind(SearchFinal(line, "\\node["), LAMBDA m1 :
        IF m1.found
        THEN <<[list |-> <<IF pattern_shape(line) THEN "node" ELSE "device",
                           strip(m1.g1), m1.g2, strip(m1.g3), strip(m1.g4)>>]>>
        ELSE <<>>)

\* Lines 145-172: what one line appends to all_commands, as a list of at
\* most one [list |-> tokens] or exception.
line_commands(line) ==
    Bind(CountOf(line, "node[", 1), LAMBDA node_count :
        IF node_count = 3 THEN <<three_node_parser(line)>>
        ELSE IF node_count = 2 THEN <<[list |-> two_node_parser(line)]>>
        ELSE IF node_count = 1 THEN one_node_parser(line)
        ELSE <<>>)

RECURSIVE node_commands(_)
node_commands(clean_line) ==
    IF Len(clean_line) = 0 THEN <<>>
    ELSE line_commands(Head(clean_line)) \o node_commands(Tail(clean_line))

\* The index of the ']' that closes the '[' at index b when the brackets
\* nest at most three deep (the second alternative of wire_turn_pattern), 0
\* when they do not.
BracketEnd(s, b) ==
    LET opens(j)  == Cardinality({k \in b..j : Ch(s, k) = "["})
        closes(j) == Cardinality({k \in b..j : Ch(s, k) = "]"})
        e == First(b + 1, Len(s),
                   LAMBDA k : Ch(s, k) = "]" /\ opens(k) = closes(k))
    IN  IF /\ StartsAt(s, b, "[") /\ e # 0
           /\ \A j \in b..e : Ch(s, j) = "[" => opens(j) - closes(j) <= 3
        THEN e ELSE 0

\* The index of the last character of the match of wire_turn_pattern at
\* index i, 0 when it does not match there.
TokenEnd(s, i) ==
    LET c == Ch(s, i)
        p == SkipNotIn(s, i + 1, {"(", ")"})
        b == IF StartsAt(s, i, "to") THEN i + 2
             ELSE IF StartsAt(s, i, "node") THEN i + 4
             ELSE i
    IN  IF c = "(" THEN (IF StartsAt(s, p, ")") THEN p ELSE 0)
        ELSE IF c \in {"t", "n", "["} THEN BracketEnd(s, b)
        ELSE IF \E d \in {"--", "-|", "|-"} : StartsAt(s, i, d) THEN i + 1
        ELSE 0

\* re.findall(wire_turn_pattern, s) from index from
RECURSIVE findall_wire_turn(_, _)
findall_wire_turn(s, from) ==
    Bind(First(from, Len(s), LAMBDA k : TokenEnd(s, k) # 0), LAMBDA i :
        IF i = 0 THEN <<>>
        ELSE Bind(TokenEnd(s, i), LAMBDA e :
            <<SubSeq(s, i, e)>> \o findall_wire_turn(s, e + 1)))

\* re.search(r'\[.*?(<-|->|<->).*?\]', options)
has_arrow(options) ==
    \E i \in 1..Len(options) :
        /\ Ch(options, i) = "["
        /\ \E j \in (i + 1)..Len(options) :
               /\ StartsAt(options, j, "<-") \/ StartsAt(options, j, "->")
               /\ \E k \in (j + 2)..Len(options) :
                      /\ Ch(options, k) = "]"
                      /\ ~Contains(SubSeq(options, i + 1, k - 1), "\n")

\* Lines 177-198 (and 204-226): what one matched statement appends
statement_commands(options, cmd_content) ==
    IF has_arrow(options) THEN <<>>
    ELSE
    Bind(findall_wire_turn(strip(cmd_content) \o strip(options), 1),
         LAMBDA tokens :
        IF ~\E k \in 1..Len(tokens) : startswith(tokens[k], "to")
        THEN <<[list |-> <<"wire">> \o tokens]>>
        ELSE IF Len(tokens) < 2 THEN <<Exc("IndexError")>>
        ELSE <<[list |-> <<"to", tokens[1],
                           IF startswith(tokens[2], "to[") /\ endswith(tokens[2], "]")
                           THEN From(tokens[2], 3) ELSE tokens[2]>>
                         \o SubSeq(tokens, 3, Len(tokens))]>>)

\* re.finditer(r'\\draw(\[.*?\])?(.*?);', content) (cmd is \draw or \path)
\* from index from: what the statements append, in order.
RECURSIVE draw_commands(_, _, _)
draw_commands(content, cmd, from) ==
    Bind(Find(content, cmd, from), LAMBDA p :
    Bind(Find(content, ";", p + Len(cmd)), LAMBDA plain :
    IF p = 0 \/ plain = 0 THEN <<>>
    ELSE
    Bind(IF StartsAt(content, p + Len(cmd), "[")
         THEN Find(content, "]", p + Len(cmd) + 1) ELSE 0, LAMBDA rb :
    Bind(IF rb # 0 THEN Find(content, ";", rb + 1) ELSE 0, LAMBDA semi :
        IF semi # 0
        THEN statement_commands(SubSeq(content, p + Len(cmd), rb),
                                SubSeq(content, rb + 1, semi - 1))
             \o draw_commands(content, cmd, semi + 1)
        ELSE statement_commands("", SubSeq(content, p + Len(cmd), plain - 1))
             \o draw_commands(content, cmd, plain + 1)))))

\* tokenize_all_draw_contents with the loop of lines 176-198 run before the
\* loop of lines 144-172: the \draw statements are appended first.
tokenize_draw_first(content) ==
    Bind(remove_comments(content), LAMBDA clean_content :
    Bind(draw_commands(clean_content, "\\draw", 1)
         \o node_commands(split(clean_content, "\n"))
         \o draw_commands(clean_content, "\\path", 1), LAMBDA all_commands :
    Bind(First(1, Len(all_commands), LAMBDA k : IsExc(all_commands[k])),
         LAMBDA bad :
        IF bad # 0 THEN all_commands[bad]
        ELSE IF Len(all_commands) = 0 THEN NoneDict
        ELSE [list |-> [k \in 1..Len(all_commands) |-> all_commands[k].list]])))

\* [list |-> all_commands], NoneDict when all_commands is empty, or the
\* exception raised by the first statement that raises.
tokenize_all_draw_contents(content) ==
    IF content = None THEN Exc("TypeError")
    ELSE
    Bind(remove_comments(content), LAMBDA clean_content :
    Bind(node_commands(split(clean_content, "\n"))
         \o draw_commands(clean_content, "\\draw", 1)
         \o draw_commands(clean_content, "\\path", 1), LAMBDA all_commands :
    Bind(First(1, Len(all_commands), LAMBDA k : IsExc(all_commands[k])),
         LAMBDA bad :
        IF bad # 0 THEN all_commands[bad]
        ELSE IF Len(all_commands) = 0 THEN NoneDict
        ELSE [list |-> [k \in 1..Len(all_commands) |-> all_commands[k].list]])))

-----------------------------------------------------------------------------
(* convert.py: main, for one input file.  pc is the position in the body   *)
(* of the loop of lines 59-100: "start" before line 74, "extracted" after  *)
(* it, "convert" in the loop of lines 88-93, "done" once the output file   *)
(* is written, "crashed" when an exception left main (ret holds it).       *)

\* token_blocks before line 85 has run
NotRun == [unset |-> TRUE]

\* json.dumps(error_data) of lines 76-77
ErrorDocument == [error |-> "No valid \\begin{circuitikz} block found."]

\* Line 74
Extract ==
    /\ pc = "start"
    /\ circuit_content' = extract_circuitikz_content(latex_code)
    /\ pc' = "extracted"
    /\ UNCHANGED <<latex_code, token_blocks, json_objects, output,
                   diagnostics, call, ret>>

\* Lines 75-79: not circuit_content holds for None and for the empty string
WriteError ==
    /\ pc = "extracted"
    /\ circuit_content \in {None, ""}
    /\ output' = ErrorDocument
    /\ pc' = "done"
    /\ UNCHANGED <<latex_code, circuit_content, token_blocks, json_objects,
                   diagnostics, call, ret>>

\* Lines 82-85.  parse_coordinate_definitions (line 82) builds a map that
\* nothing reads and cannot raise.
Tokenize ==
    /\ pc = "extracted"
    /\ circuit_content \notin {None, ""}
    /\ \E blocks \in {tokenize_all_draw_contents(circuit_content)} :
           IF IsExc(blocks)
           THEN /\ pc' = "crashed"
                /\ ret' = blocks
                /\ UNCHANGED token_blocks
           ELSE /\ pc' = "convert"
                /\ token_blocks' = blocks
                /\ UNCHANGED ret
    /\ UNCHANGED <<latex_code, circuit_content, json_objects, output,
                   diagnostics, call>>

\* Lines 88-89: the token sequences the loop still has to convert
Pending ==
    IF IsNoneDict(token_blocks) THEN <<>>
    ELSE SubSeq(token_blocks.list, Len(json_objects) + 1, Len(token_blocks.list))

\* Lines 92-93: one iteration of the loop; whatever convert_tokens_to_json
\* returns for the next token sequence is appended.  What it printed is
\* counted also when it raises.
ConvertNext ==
    /\ pc = "convert"
    /\ Len(Pending) > 0
    /\ \E run \in {convert_run(Head(Pending))} :
           /\ diagnostics' = diagnostics + run.diag
           /\ IF IsExc(run)
              THEN /\ pc' = "crashed"
                   /\ ret' = Returned(run)
                   /\ UNCHANGED json_objects
              ELSE /\ json_objects' = Append(json_objects, Returned(run))
                   /\ UNCHANGED <<pc, ret>>
    /\ UNCHANGED <<latex_code, circuit_content, token_blocks, output, call>>

\* Lines 95-99
WriteDoc ==
    /\ pc = "convert"
    /\ Len(Pending) = 0
    /\ output' = [version |-> "0.1", components |-> json_objects]
    /\ pc' = "done"
    /\ UNCHANGED <<latex_code, circuit_content, token_blocks, json_objects,
                   diagnostics, call, ret>>

-----------------------------------------------------------------------------
(* The documents converted *)

\* The most statements in the drawing block of a document
MaxStmts == 2

Statements ==
    { "\\draw (0,0) -- (1,1);",
      "\\draw[line width=1pt] (0,0) -| (2,3);",
      "\\draw[->] (0,0) -- (1,1);",
      "\\draw (9.54, 10.75) to[cute inductor, l_={$L_1$}] (9.54, 9.75);",
      "\\path[draw, line width=2pt, dash pattern={on 2pt off 9pt}] (0,0) -| (1,1);",
      "% \\draw (5,5) -- (6,6);",
      "\\node[shape=circle, draw, line width=1pt, minimum width=-0.035cm] at (3.5, 8.75){};",
      "\\node[shape=rectangle, draw, line width=0pt, dash pattern={on 1pt off 3pt}, minimum width=1cm] at (1,1){};",
      "\\node[npn, xscale=-1, rotate=90](Q1) at (1,1){};",
      "\\node[shape=rectangle, minimum width=1cm](x1) at (1,1){} node[anchor=north] at (1,1.3){A};",
      "\\node[shape=rectangle, fill, minimum width=1cm] at (1,1){} node[anchor=north] at (1,1.3){A};",
      "\\node[shape=rectangle, minimum width=1cm](x1) at (1,1){} node[anchor=north] (1,1.3){A};",
      "\\node[shape=rectangle, draw, minimum width=1cm](n) at (1,1){} node[anchor=south] at (1,2){$U_1$} node[anchor=north] at (1,0){b};",
      "\\node[shape=rectangle, minimum width=1cm] at (1,1){} node[anchor=south] at (1,2){a} node[anchor=north] at (1,0){b};" }

\* The statement lines of a drawing block, in order
Bodies == UNION {[1..n -> Statements] : n \in 0..MaxStmts}

Wrap(open, body, close) == join(<<open>> \o body \o <<close>>, "\n")

\* Documents with a block of either environment, with a \begin and an \end
\* of different environments, with no \end, with no environment at all,
\* and with a block that holds nothing.
Documents ==
    {Wrap("\\begin{circuitikz}", b, "\\end{circuitikz}") : b \in Bodies}
    \cup {Wrap("\\begin{tikzpicture}", b, "\\end{tikzpicture}") : b \in Bodies}
    \cup {Wrap("\\begin{circuitikz}", b, "\\end{tikzpicture}") : b \in Bodies}
    \cup {Wrap("\\begin{circuitikz}", b, "") : b \in Bodies}
    \cup {Wrap("", b, "") : b \in Bodies}
    \cup {"\\begin{circuitikz}\\end{circuitikz}"}

Init ==
    /\ pc = "start"
    /\ latex_code \in Documents
    /\ circuit_content = ""
    /\ token_blocks = NotRun
    /\ json_objects = <<>>
    /\ output = <<>>
    /\ diagnostics = 0
    /\ call = <<>>
    /\ ret = <<>>

Next == Extract \/ WriteError \/ Tokenize \/ ConvertNext \/ WriteDoc

Spec == Init /\ [][Next]_vars

-----------------------------------------------------------------------------
(* The functions of tikz_tokens_2_json.py called on their own: call holds  *)
(* the function and its arguments, ret what it returned or raised, and     *)
(* diagnostics the number of lines it printed.                             *)

\* The parts of an option text that are stated, separated as the drawing
\* tool separates them
OptionText(parts) == join(SelectSeq(parts, LAMBDA p : p # ""), ", ")

\* The decimal text of m thousandths, without trailing zeros
FormatMilli(m) ==
    FormatNat(m \div 1000)
    \o (IF m % 1000 = 0 THEN ""
        ELSE IF m % 100 = 0 THEN "." \o DigitChar((m % 1000) \div 100)
        ELSE IF m % 10 = 0
        THEN "." \o DigitChar((m % 1000) \div 100)
                 \o DigitChar((m % 100) \div 10)
        ELSE "." \o DigitChar((m % 1000) \div 100)
                 \o DigitChar((m % 100) \div 10) \o DigitChar(m % 10))

\* The most tenths of a point in a line width
MaxTenths == 20

\* Line widths in thousandths of a point: 0.1pt, 0.2pt, ...
Widths == {100 * k : k \in 1..MaxTenths}

\* A pattern of the line-style table drawn at line width w: each on/off
\* length (one digit in every key of the table) multiplied by w
RECURSIVE ScalePattern(_, _)
ScalePattern(key, w) ==
    IF key = "" THEN ""
    ELSE (IF IsDigit(Ch(key, 1)) THEN FormatMilli(DigitVal(Ch(key, 1)) * w)
          ELSE Ch(key, 1))
         \o ScalePattern(From(key, 2), w)

\* A pattern that divides to no key of the table at any line width: every
\* key has an off length
UnknownPattern == "on 3pt"

DashCalls ==
    {<<"scale_dash_pattern", ScalePattern(key, w), PyFloat(w)>> :
         key \in DOMAIN LINE_ALIASES, w \in Widths}
    \cup {<<"scale_dash_pattern", UnknownPattern, PyFloat(w)>> :
              w \in {0, 700, 1000}}
    \cup {<<"scale_dash_pattern", "solid", PyFloat(0)>>}

\* Option texts of a shape: the draw marker, the line width, an opacity and
\* the dash pattern, each stated or not
DrawMarkers == {"", "draw", "draw={rgb,255:red,0;green,0;blue,160}"}
LineWidths == {"", "0pt", "0.7pt", "1pt", "2pt", "1.2.3pt"}
Opacities == {"", "draw opacity=0.43", "fill opacity=0.5"}
DashPatterns == {"", "on 2pt off 8pt", UnknownPattern}

WidthPart(w) == IF w = "" THEN "" ELSE "line width=" \o w
DashPart(d) == IF d = "" THEN "" ELSE "dash pattern={" \o d \o "}"

DrawText(m, w, o, d) ==
    OptionText(<<"shape=rectangle", m, WidthPart(w), o, DashPart(d)>>)

DrawCalls ==
    {<<"parse_draw_options", DrawText(m, w, o, d)>> :
         m \in DrawMarkers, w \in LineWidths, o \in Opacities,
         d \in DashPatterns}

\* Option texts of a device: each of xscale, yscale and rotate stated or not
XScales == {"", "-1", "0.5", "2"}
YScales == {"", "-1", ".5", "3"}
Rotations == {"", "90", "-45", "-180"}

ScalePart(name, value) == IF value = "" THEN "" ELSE name \o "=" \o value

RotationText(x, y, r) ==
    OptionText(<<"npn", ScalePart("xscale", x), ScalePart("yscale", y),
                 ScalePart("rotate", r)>>)

RotationCalls ==
    {<<"parse_rotation", RotationText(x, y, r)>> :
         x \in XScales, y \in YScales, r \in Rotations}

\* Token sequences of kind wire: a path, and the options of the statement
\* as the last token when it has any
NumericPaths ==
    { <<"(0,0)", "--", "(1,1)">>,
      <<"(0,0)", "-|", "(2,3)", "|-", "(4, 1.5)">>,
      <<"(1,1)", "--", "(1,1)">> }
WirePaths == NumericPaths \cup {<<"(A)", "--", "(B)">>}
WireMarkers == {"", "draw"}
WireWidths == {"", "0pt", "1pt", "2.5pt"}
WireDashes == {"", UnknownPattern}
WireArrows == {"", "stealth-latex"}

WireOptions(m, w, d, a) == OptionText(<<m, WidthPart(w), DashPart(d), a>>)

WireTokens(path, options) ==
    <<"wire">> \o path
    \o (IF options = "" THEN <<>> ELSE <<"[" \o options \o "]">>)

\* Options that state a draw opacity and no draw marker
OpacityOptions == {"draw opacity=0.5", "line width=1pt, draw opacity=0.5"}

\* The options of the model that state no draw marker
NoMarkerOptions ==
    {WireOptions("", w, d, a) :
         w \in WireWidths, d \in WireDashes, a \in WireArrows}
    \cup OpacityOptions

WireCalls ==
    {<<"convert_tokens_to_json", WireTokens(p, WireOptions(m, w, d, a))>> :
         p \in WirePaths, m \in WireMarkers, w \in WireWidths,
         d \in WireDashes, a \in WireArrows}
    \cup {<<"convert_tokens_to_json", WireTokens(p, o)>> :
              p \in WirePaths, o \in OpacityOptions}

\* Token sequences of every kind with coordinates that are not absolute
\* numeric pairs (named or relative to an anchor), alone or beside one
\* absolute pair
ShortSequences ==
    { <<"to", "(9.54, 10.75)", "[R]", "(X1.north)">>,
      <<"to", "(A)", "[R]", "(B)">>,
      <<"node", "shape=circle, draw", "n1", "([yshift=0.04cm]X1.north east)", "">>,
      <<"device", "npn", None, "(N1.text)", "">>,
      <<"2node", "shape=rectangle, minimum width=1cm", "x1", "(X1.north)", "",
        "[anchor=north]", "", "(1,1.3)", "A">>,
      <<"3node", "[shape=circle]", "n", "(A)", "", "[anchor=south]", "",
        "(n.north)", "a", "[anchor=north]", "", "(n.south)", "b">>,
      <<"wire", "(A)", "--", "(1,1)">>,
      <<"wire", "(A)", "--", "(B)">> }

CoordinateCalls ==
    {<<"get_coordinate_list", t>> : t \in ShortSequences}
    \cup {<<"get_coordinate_list", <<"wire">> \o p>> : p \in NumericPaths}

ShortCalls == {<<"convert_tokens_to_json", t>> : t \in ShortSequences}

\* \draw and \path statements whose options hold an arrow marker: the
\* last four with two and with three nodes along the path, with a line
\* break inside the options, and with a space before the options
ArrowStatements ==
    { "\\draw[->] (0,0) -- (1,1);",
      "\\draw[<-, line width=1pt] (0,0) -| (2,3);",
      "\\draw[line width=1pt, <->] (0,0) -- (1,1);",
      "\\draw[->] (0,0) to[R] (2,0);",
      "\\path[draw, ->] (0,0) -| (1,1);",
      "\\path[draw, line width=2pt, <->] (0,0) -| (1,1);",
      "\\draw[->] (0,0) node[left]{a} -- (1,1) node[right]{b};",
      "\\draw[->] (0,0) node[left]{a} -- (1,1) node[above]{m} -- (2,0) node[right]{b};",
      "\\draw[line width=1pt,\n->] (0,0) -- (1,1);",
      "\\draw [->] (0,0) -- (1,1);" }

\* Statements without one: the marker of the third stands in the options of
\* a to clause, the fourth names an arrow tip without a marker
PlainStatements ==
    { "\\draw (0,0) -- (1,1);",
      "\\path[draw] (0,0) -| (1,1);",
      "\\draw (0,0) to[R, l={$a->b$}] (2,0);",
      "\\draw[line width=1pt, stealth-latex] (0,0) -- (1,1);" }

\* Drawing blocks of one arrow statement, alone or before or after another
\* statement, and of one statement without an arrow
TokenizeCalls ==
    {<<"tokenize_all_draw_contents", a>> : a \in ArrowStatements}
    \cup {<<"tokenize_all_draw_contents", p>> : p \in PlainStatements}
    \cup {<<"tokenize_all_draw_contents", join(<<a, p>>, "\n")>> :
              a \in ArrowStatements, p \in PlainStatements}
    \cup {<<"tokenize_all_draw_contents", join(<<p, a>>, "\n")>> :
              a \in ArrowStatements, p \in PlainStatements}

\* Shape options with and without a minimum width and a minimum height,
\* positive, zero and negative
ShapeKinds == {"shape=rectangle", "shape=circle"}
MinWidths == {"", "1cm", "0.5cm", "0cm", "-0.035cm"}
MinHeights == {"", "0.5cm", "2cm", "-0cm", "-0.035cm"}

ShapeText(s, w, h) ==
    OptionText(<<s, "draw", ScalePart("minimum width", w),
                 ScalePart("minimum height", h)>>)

ShapeTexts ==
    {ShapeText(s, w, h) : s \in ShapeKinds, w \in MinWidths, h \in MinHeights}

\* The position of a shape at (1,1)
ShapeLocation == [x |-> PyFloat(37795), y |-> PyFloat(-37795)]

ShapeCalls == {<<"parse_shape_size", t, ShapeLocation>> : t \in ShapeTexts}

\* Single nodes with these options, and devices with one scale
NodeCalls ==
    {<<"convert_tokens_to_json", <<"node", t, None, "(1,1)", "">>>> :
        t \in ShapeTexts}
    \cup {<<"convert_tokens_to_json",
            <<"device", "npn, xscale=" \o x, "Q1", "(1,1)", "">>>> :
              x \in {"-1", "0", "0.5"}}

\* Math spans (the third with a line break inside) and spans of text
\* without $ (the third a line break, the fourth one followed by text)
MathSpans == {"$x$", "$\\frac{a}{b}$", "$a \\\\ b$"}
TextSpans == {"a", "\\small ", " \\\\ ", "\\\\ b"}

\* The most spans of a label
MaxSpans == 3

\* Labels as lists of spans in which no two spans of text are adjacent
SpanLists ==
    { l \in UNION {[1..n -> MathSpans \cup TextSpans] : n \in 1..MaxSpans} :
        \A k \in 1..(Len(l) - 1) :
            ~(l[k] \in TextSpans /\ l[k + 1] \in TextSpans) }

\* Labels with \$: in text alone, in a math span, in a math span before
\* text, in text before a math span, and twice in text
EscapedSpanLists ==
    { <<"cost \\$5">>,
      <<"$a \\$ b$">>,
      <<"$a \\$ b$", " c">>,
      <<"cost \\$5 and ", "$x$">>,
      <<"a \\$ b \\$ c">> }

\* Each call carries the label and, third, the spans it was written from.
LabelCalls ==
    {<<"parse_label_mixed_latex", join(l, ""), l>> :
        l \in SpanLists \cup EscapedSpanLists}

\* Texts that start with a formatting command: the command, the rest of
\* the first span and the spans after it
FontTexts ==
    [cmd : {"small", "Large"}, rest : {"A ", "B"},
     more : {<<>>, <<"$e_t$">>, <<"$e_t$", " b">>}]

FontText(f) == "\\" \o f.cmd \o " " \o f.rest \o join(f.more, "")

\* A three-node statement with the given label
FontTokens(label) ==
    <<"3node", "[shape=rectangle, draw, minimum width=1cm]", "n", "(1,1)", "",
      "[anchor=south]", "", "(1,2)", label,
      "[anchor=north]", "", "(1,0)", "b">>

FontCalls ==
    {<<"parse_text_for_shape", FontText(f)>> : f \in FontTexts}
    \cup {<<"parse_text_for_shape", t>> : t \in {"A $e_t$", "$U_1$"}}
    \cup {<<"convert_tokens_to_json", FontTokens(FontText(f))>> :
              f \in FontTexts}
    \cup {<<"convert_tokens_to_json", FontTokens(t)>> :
              t \in {"A $e_t$", "$U_1$"}}

\* Documents with markers and statements in comments: a plain block, a
\* block all in comments, an \end in a comment inside the block, a \begin
\* in a comment before the block, an \end in a comment on the line of the
\* \begin, a comment after a statement, and an escaped % in a statement.
MarkerDocuments ==
    UNION { { join(<<"\\begin{" \o e \o "}", "\\draw (0,0) -- (1,1);",
                     "\\end{" \o e \o "}">>, "\n"),
              join(<<"% \\begin{" \o e \o "}", "\\draw (0,0) -- (1,1);",
                     "% \\end{" \o e \o "}">>, "\n"),
              join(<<"\\begin{" \o e \o "}", "\\draw (0,0) -- (1,1);",
                     "% \\end{" \o e \o "}", "\\draw (2,2) -- (3,3);",
                     "\\end{" \o e \o "}">>, "\n"),
              join(<<"% \\begin{" \o e \o "}", "\\begin{" \o e \o "}",
                     "\\draw (0,0) -- (1,1);", "\\end{" \o e \o "}">>, "\n"),
              join(<<"\\begin{" \o e \o "} % \\end{" \o e \o "}",
                     "\\draw (0,0) -- (1,1);", "\\end{" \o e \o "}">>, "\n"),
              join(<<"\\begin{" \o e \o "}", "\\draw (0,0) -- (1,1); % wire",
                     "\\end{" \o e \o "}">>, "\n"),
              join(<<"\\begin{" \o e \o "}",
                     "\\node[shape=rectangle, minimum width=1cm] at (1,1){50\\%};",
                     "\\end{" \o e \o "}">>, "\n") } :
            e \in {"circuitikz", "tikzpicture"} }

ExtractCalls == {<<"extract_circuitikz_content", d>> : d \in MarkerDocuments}

\* Statements with a to clause: first, twice, after a turn, and in a \path
\* statement with and without options
ToStatements ==
    { "\\draw (0,0) to[R] (2,0);",
      "\\draw (0,0) to[R] (1,0) to[C] (2,0);",
      "\\draw (0,0) -- (1,0) to[R] (2,0);",
      "\\path[draw] (0,0) to[L] (2,0);",
      "\\path (0,0) -| (1,1) to[L] (2,1);" }

ToCalls == {<<"tokenize_all_draw_contents", t>> : t \in ToStatements}

\* Token sequences of the node, 2node and 3node kinds with a name, a
\* rotation and, for the last two, with and without a text
OrderSequences ==
    { <<"node", "shape=circle, draw, minimum width=1cm, rotate=90", "n1",
        "(1,1)", "">>,
      <<"2node", "shape=rectangle, draw, fill, minimum width=1cm, rotate=90",
        "x1", "(1,1)", "", "[anchor=north]", "", "(1,1.3)", "A">>,
      <<"2node", "shape=rectangle, draw, fill, minimum width=1cm, xscale=-1",
        "x1", "(1,1)", "", "[anchor=north]", "", "(1,1.3)", None>>,
      <<"3node", "[shape=rectangle, draw, minimum width=1cm, rotate=90]", "n",
        "(1,1)", "", "[anchor=south]", "", "(1,2)", "$U_1$",
        "[anchor=north]", "", "(1,0)", "b">>,
      <<"3node", "[shape=rectangle, draw, minimum width=1cm, rotate=90]", "n",
        "(1,1)", "", "[anchor=south]", "", "(1,2)", "$U_1$",
        "[anchor=north]", "", "(1,0)", None>> }

\* list(convert_tokens_to_json(tokens)): the keys in the order in which
\* they were set
KeyCalls == {<<"list(convert_tokens_to_json)", t>> : t \in OrderSequences}

\* To chains with a label option: the key of the label, its text, and the
\* options stated before and after it
ChainLabelKeys == {"l", "l_"}
ChainLabelTexts == {"R_1", "10\\,\\Omega"}
ChainOptionsBefore == {<<"R">>, <<"R", "mirror">>}
ChainOptionsAfter ==
    {<<>>, <<"mirror">>, <<"invert">>, <<"name=R1">>,
     <<"mirror", "invert", "name=R1">>}

ChainOptions(before, key, text, after) ==
    "[" \o join(before \o <<key \o "={$" \o text \o "$}">> \o after, ", ")
        \o "]"

\* The third component of a call is the text of the label stated
ChainCalls ==
    {<<"convert_tokens_to_json",
       <<"to", "(0,0)", ChainOptions(b, k, t, a), "(2,0)">>, t>> :
        b \in ChainOptionsBefore, k \in ChainLabelKeys,
        t \in ChainLabelTexts, a \in ChainOptionsAfter}

Calls ==
    DrawCalls \cup RotationCalls \cup DashCalls \cup WireCalls
    \cup CoordinateCalls \cup ShortCalls \cup TokenizeCalls
    \cup ShapeCalls \cup NodeCalls \cup LabelCalls \cup FontCalls
    \cup ExtractCalls
    \cup ToCalls
    \cup KeyCalls
    \cup ChainCalls

FnInit ==
    /\ pc = "call"
    /\ call \in Calls
    /\ ret = <<>>
    /\ diagnostics = 0
    /\ latex_code = ""
    /\ circuit_content = ""
    /\ token_blocks = NotRun
    /\ json_objects = <<>>
    /\ output = <<>>

CallTokenizeAllDrawContents ==
    /\ pc = "call"
    /\ call[1] = "tokenize_all_draw_contents"
    /\ ret' = tokenize_all_draw_contents(call[2])
    /\ pc' = "returned"
    /\ UNCHANGED <<latex_code, circuit_content, token_blocks, json_objects,
                   output, diagnostics, call>>

CallParseShapeSize ==
    /\ pc = "call"
    /\ call[1] = "parse_shape_size"
    /\ ret' = parse_shape_size(call[2], call[3])
    /\ pc' = "returned"
    /\ UNCHANGED <<latex_code, circuit_content, token_blocks, json_objects,
                   output, diagnostics, call>>

CallParseLabelMixedLatex ==
    /\ pc = "call"
    /\ call[1] = "parse_label_mixed_latex"
    /\ ret' = parse_label_mixed_latex(call[2])
    /\ pc' = "returned"
    /\ UNCHANGED <<latex_code, circuit_content, token_blocks, json_objects,
                   output, diagnostics, call>>

CallParseTextForShape ==
    /\ pc = "call"
    /\ call[1] = "parse_text_for_shape"
    /\ ret' = parse_text_for_shape(call[2])
    /\ pc' = "returned"
    /\ UNCHANGED <<latex_code, circuit_content, token_blocks, json_objects,
                   output, diagnostics, call>>

CallExtractCircuitikzContent ==
    /\ pc = "call"
    /\ call[1] = "extract_circuitikz_content"
    /\ ret' = extract_circuitikz_content(call[2])
    /\ pc' = "returned"
    /\ UNCHANGED <<latex_code, circuit_content, token_blocks, json_objects,
                   output, diagnostics, call>>

CallConvertTokensToJsonKeys ==
    /\ pc = "call"
    /\ call[1] = "list(convert_tokens_to_json)"
    /\ ret' = convert_tokens_to_json_keys(call[2])
    /\ diagnostics' = convert_tokens_to_json_diag(call[2])
    /\ pc' = "returned"
    /\ UNCHANGED <<latex_code, circuit_content, token_blocks, json_objects,
                   output, call>>

CallParseDrawOptions ==
    /\ pc = "call"
    /\ call[1] = "parse_draw_options"
    /\ ret' = parse_draw_options(call[2])
    /\ diagnostics' = parse_draw_options_diag(call[2])
    /\ pc' = "returned"
    /\ UNCHANGED <<latex_code, circuit_content, token_blocks, json_objects,
                   output, call>>

CallParseRotation ==
    /\ pc = "call"
    /\ call[1] = "parse_rotation"
    /\ ret' = parse_rotation(call[2])
    /\ pc' = "returned"
    /\ UNCHANGED <<latex_code, circuit_content, token_blocks, json_objects,
                   output, diagnostics, call>>

CallScaleDashPattern ==
    /\ pc = "call"
    /\ call[1] = "scale_dash_pattern"
    /\ ret' = scale_dash_pattern(call[2], call[3])
    /\ pc' = "returned"
    /\ UNCHANGED <<latex_code, circuit_content, token_blocks, json_objects,
                   output, diagnostics, call>>

CallConvertTokensToJson ==
    /\ pc = "call"
    /\ call[1] = "convert_tokens_to_json"
    /\ \E run \in {convert_run(call[2])} :
           /\ ret' = Returned(run)
           /\ diagnostics' = run.diag
    /\ pc' = "returned"
    /\ UNCHANGED <<latex_code, circuit_content, token_blocks, json_objects,
                   output, call>>

CallGetCoordinateList ==
    /\ pc = "call"
    /\ call[1] = "get_coordinate_list"
    /\ ret' = get_coordinate_list(call[2])
    /\ pc' = "returned"
    /\ UNCHANGED <<latex_code, circuit_content, token_blocks, json_objects,
                   output, diagnostics, call>>

FnNext ==
    \/ CallConvertTokensToJsonKeys
    \/ CallExtractCircuitikzContent
    \/ CallTokenizeAllDrawContents
    \/ CallGetCoordinateList
    \/ CallParseShapeSize
    \/ CallParseLabelMixedLatex
    \/ CallParseTextForShape
    \/ CallParseDrawOptions
    \/ CallParseRotation
    \/ CallScaleDashPattern
    \/ CallConvertTokensToJson

FnSpec == FnInit /\ [][FnNext]_vars

-----------------------------------------------------------------------------
(* Properties *)

SameRecord(a, b) == DOMAIN a = DOMAIN b /\ \A k \in DOMAIN a : a[k] = b[k]

Environments == {"circuitikz", "tikzpicture"}

\* No \begin{env} of the text has an \end{env} of the same environment
\* after it
NoPair(text) ==
    \A env \in Environments : \A p \in 1..Len(text) :
        StartsAt(text, p, "\\begin{" \o env \o "}")
            => \A q \in (p + Len(env) + 8)..Len(text) :
                   ~StartsAt(text, q, "\\end{" \o env \o "}")

\* C1: a document with no begin/end pair of one drawing environment is
\* never tokenized or converted, and what is written for it is exactly the
\* error document: one field, error, and no components.
C1_NoBlockGivesErrorDocument ==
    NoPair(latex_code)
        => /\ pc \in {"start", "extracted", "done"}
           /\ circuit_content \in {"", None}
           /\ DOMAIN token_blocks = {"unset"}
           /\ Len(json_objects) = 0
           /\ pc = "done"
                  => /\ DOMAIN output = {"error"}
                     /\ output.error = "No valid \\begin{circuitikz} block found."

\* C1 witness: the error document written for a document whose \begin and
\* \end name different environments around a \draw statement.
C1_Witness ==
    /\ pc = "done"
    /\ NoPair(latex_code)
    /\ Contains(latex_code, "\\begin{circuitikz}")
    /\ Contains(latex_code, "\\end{tikzpicture}")
    /\ Contains(latex_code, "\\draw")
    /\ DOMAIN output = {"error"}

\* C2: a parse_draw_options call on an option text that states no draw
\* marker (neither draw nor draw={...}) returns exactly {opacity: 0},
\* whatever line width, opacity or dash pattern the text states.
C2_NoMarkerGivesSentinel ==
    \A w \in LineWidths, o \in Opacities, d \in DashPatterns :
        (/\ pc = "returned"
         /\ call[1] = "parse_draw_options"
         /\ call[2] = DrawText("", w, o, d))
            => /\ DOMAIN ret = {"opacity"}
               /\ ret.opacity = PyInt(0)

\* C3: a wire whose trailing options state no draw marker is converted
\* to a wire record with points and directions and no stroke, whatever
\* line width, draw opacity, dash pattern or arrow heads the options state.
C3_NoMarkerNoStroke ==
    \A p \in WirePaths, o \in NoMarkerOptions :
        (/\ pc = "returned"
         /\ call[1] = "convert_tokens_to_json"
         /\ call[2] = WireTokens(p, o))
            => /\ ~IsExc(ret)
               /\ {"type", "points", "directions"} \subseteq DOMAIN ret
               /\ ret.type = "wire"
               /\ "stroke" \notin DOMAIN ret

\* The five rules of rotation and scale inference, by the options stated:
\* 1 all three, 2 only xscale, 3 only yscale, 4 only rotate, 5 xscale and
\* yscale without rotate
RuleApplies(k, x, y, r) ==
    CASE k = 1 -> x # "" /\ y # "" /\ r # ""
      [] k = 2 -> x # "" /\ y = "" /\ r = ""
      [] k = 3 -> x = "" /\ y # "" /\ r = ""
      [] k = 4 -> x = "" /\ y = "" /\ r # ""
      [] k = 5 -> x # "" /\ y # "" /\ r = ""

\* The negative of a stated scale
Negated(value) == NegFloat(value)

RuleResult(k, x, y, r) ==
    CASE k = 1 -> [scale |-> [x |-> PyStr(x), y |-> PyStr(y)], rotation |-> r]
      [] k = 2 -> [scale |-> [x |-> Negated(x), y |-> Negated(x)],
                   rotation |-> "-180"]
      [] k = 3 -> [scale |-> [x |-> Negated(y), y |-> PyStr(y)]]
      [] k = 4 -> [rotation |-> r]
      [] k = 5 -> [scale |-> [x |-> PyStr(x), y |-> PyStr(y)]]

SameRotation(a, b) ==
    /\ DOMAIN a = DOMAIN b
    /\ "rotation" \in DOMAIN a => a.rotation = b.rotation
    /\ "scale" \in DOMAIN a => SameRecord(a.scale, b.scale)

\* C4: whichever of xscale, yscale and rotate an option text states,
\* parse_rotation returns nothing when it states none of them, and
\* otherwise exactly one of the five rules applies to what is stated and
\* the rotation and scale returned are that rule's.
C4_ExactlyOneRule ==
    \A x \in XScales, y \in YScales, r \in Rotations :
        (/\ pc = "returned"
         /\ call[1] = "parse_rotation"
         /\ call[2] = RotationText(x, y, r))
            => IF x = "" /\ y = "" /\ r = "" THEN DOMAIN ret = {}
               ELSE \E k \in 1..5 :
                        /\ RuleApplies(k, x, y, r)
                        /\ \A j \in 1..5 \ {k} : ~RuleApplies(j, x, y, r)
                        /\ SameRotation(ret, RuleResult(k, x, y, r))

\* C5: for an option text that states xscale and yscale and no rotate,
\* parse_rotation returns no rotation and the two scales as the texts
\* stated, signs included.
C5_TwoScalesVerbatim ==
    \A x \in XScales \ {""}, y \in YScales \ {""} :
        (/\ pc = "returned"
         /\ call[1] = "parse_rotation"
         /\ call[2] = RotationText(x, y, ""))
            => /\ DOMAIN ret = {"scale"}
               /\ SameRecord(ret.scale, [x |-> PyStr(x), y |-> PyStr(y)])

\* C5 witness: xscale=-1 with yscale=3 and no rotate, returned as the
\* scale {x: "-1", y: "3"}.
C5_Witness ==
    /\ pc = "returned"
    /\ call[1] = "parse_rotation"
    /\ call[2] = "npn, xscale=-1, yscale=3"
    /\ DOMAIN ret = {"scale"}
    /\ ret.scale.x = PyStr("-1")
    /\ ret.scale.y = PyStr("3")

\* C6: a pattern of the line-style table with every length multiplied by a
\* positive line width w, divided back by scale_dash_pattern with factor
\* w, is a key of the table again and names the style of the pattern.
C6_ScaleInvariant ==
    \A key \in DOMAIN LINE_ALIASES :
        (/\ pc = "returned"
         /\ call[1] = "scale_dash_pattern"
         /\ call[3][2] > 0
         /\ call[2] = ScalePattern(key, call[3][2]))
            => /\ ~IsExc(ret)
               /\ ret.value \in DOMAIN LINE_ALIASES
               /\ LINE_ALIASES[ret.value] = LINE_ALIASES[key]

\* C6 witness: the densely dash-dotted pattern at line width 0.7pt,
\* on 2.8pt off 0.7pt on 0.7pt off 0.7pt, divided back to its key.
C6_Witness ==
    /\ pc = "returned"
    /\ call[1] = "scale_dash_pattern"
    /\ call[3] = PyFloat(700)
    /\ call[2] = "on 2.8pt off 0.7pt on 0.7pt off 0.7pt"
    /\ ~IsExc(ret)
    /\ ret.value = "on 4pt off 1pt on 1pt off 1pt"
    /\ LINE_ALIASES[ret.value] = "denselydashdot"

\* The line widths of LineWidths that are numbers
NumericWidths == {"0pt", "0.7pt", "1pt", "2pt"}

\* C7: for an option text with a draw marker, a numeric line width and a
\* dash pattern that divides to no key of the table, parse_draw_options
\* returns without raising, prints one diagnostic and returns a stroke
\* with no style.
C7_UnknownPatternFallsBack ==
    \A m \in DrawMarkers \ {""}, w \in NumericWidths, o \in Opacities :
        (/\ pc = "returned"
         /\ call[1] = "parse_draw_options"
         /\ call[2] = DrawText(m, w, o, UnknownPattern))
            => /\ ~IsExc(ret)
               /\ diagnostics = 1
               /\ "style" \notin DOMAIN ret

\* C8: no component of a document has an empty fill or a null name.
C8_NoPlaceholders ==
    \A k \in 1..Len(json_objects) :
        /\ "fill" \in DOMAIN json_objects[k]
               => DOMAIN json_objects[k].fill # {}
        /\ "name" \in DOMAIN json_objects[k]
               => json_objects[k].name # None

\* Node statements that do not match the micro-grammar: a two-node line
\* whose chained clause lacks "at", and a three-node line without (name)
MismatchedNodeLines ==
    { "\\node[shape=rectangle, minimum width=1cm](x1) at (1,1){} node[anchor=north] (1,1.3){A};",
      "\\node[shape=rectangle, minimum width=1cm] at (1,1){} node[anchor=south] at (1,2){a} node[anchor=north] at (1,0){b};" }

\* C10: a document of mismatched node statements is tokenized and
\* converted without an exception leaving main.
C10_MismatchDoesNotRaise ==
    (\E b \in UNION {[1..n -> MismatchedNodeLines] : n \in 1..MaxStmts} :
         latex_code = Wrap("\\begin{circuitikz}", b, "\\end{circuitikz}"))
        => pc # "crashed"

\* The coordinate tokens of ShortSequences that are absolute numeric pairs
AbsolutePairs == {"(9.54, 10.75)", "(1,1.3)", "(1,1)"}

\* C11: get_coordinate_list returns one point for each token that is an
\* absolute numeric pair and none for a named or anchor-relative
\* coordinate, and convert_tokens_to_json returns without raising for a
\* token sequence of any kind that has such coordinates.
C11_ShortCoordinateListTolerated ==
    \A t \in ShortSequences :
        /\ (/\ pc = "returned"
            /\ call[1] = "get_coordinate_list"
            /\ call[2] = t)
               => /\ ~IsExc(ret)
                  /\ Len(ret.list)
                       = Len(SelectSeq(t, LAMBDA c : c \in AbsolutePairs))
        /\ (/\ pc = "returned"
            /\ call[1] = "convert_tokens_to_json"
            /\ call[2] = t)
               => ~IsExc(ret)

\* The statement lines of the drawing block
BodyLines == SelectSeq(split(circuit_content, "\n"), LAMBDA l : l # "")

\* The token sequences of one statement line on its own
LineTokens(line) ==
    Bind(tokenize_all_draw_contents(line), LAMBDA blocks :
        IF "list" \in DOMAIN blocks THEN blocks.list ELSE <<>>)

\* The token sequences of the lines that start with the command cmd, in
\* line order
RECURSIVE CommandTokens(_, _)
CommandTokens(lines, cmd) ==
    IF Len(lines) = 0 THEN <<>>
    ELSE (IF startswith(Head(lines), cmd) THEN LineTokens(Head(lines))
          ELSE <<>>)
         \o CommandTokens(Tail(lines), cmd)

\* C12: the token sequences of a document are those of its \node lines in
\* line order, then those of its \draw statements, then those of its
\* \path statements, each in document order; and the components written
\* are the conversions of these sequences, one for each, in the same
\* order.  (The token list is looked at when it has just been built and
\* when the document is written.)
C12_EmissionOrder ==
    /\ (/\ "list" \in DOMAIN token_blocks
         /\ \/ pc = "convert" /\ Len(json_objects) = 0
            \/ pc = "done")
            => token_blocks.list
                 = CommandTokens(BodyLines, "\\node")
                   \o CommandTokens(BodyLines, "\\draw")
                   \o CommandTokens(BodyLines, "\\path")
    /\ (pc = "done" /\ "list" \in DOMAIN token_blocks)
            => /\ "components" \in DOMAIN output
               /\ Len(output.components) = Len(token_blocks.list)
               /\ \A k \in 1..Len(output.components) :
                      output.components[k]
                          = convert_tokens_to_json(token_blocks.list[k])

\* C12 witness: a document with a \draw statement before a \node line,
\* written with the ellipse of the node before the wire.
C12_Witness ==
    /\ pc = "done"
    /\ BodyLines
         = <<"\\draw (0,0) -- (1,1);",
             "\\node[shape=circle, draw, line width=1pt, minimum width=-0.035cm] at (3.5, 8.75){};">>
    /\ "components" \in DOMAIN output
    /\ Len(output.components) = 2
    /\ output.components[1].type = "ellipse"
    /\ output.components[2].type = "wire"

\* The token sequence of a statement without an arrow marker
PlainTokens(p) ==
    CASE p = "\\draw (0,0) -- (1,1);" -> <<"wire", "(0,0)", "--", "(1,1)">>
      [] p = "\\path[draw] (0,0) -| (1,1);"
             -> <<"wire", "(0,0)", "-|", "(1,1)", "[draw]">>
      [] p = "\\draw (0,0) to[R, l={$a->b$}] (2,0);"
             -> <<"to", "(0,0)", "[R, l={$a->b$}]", "(2,0)">>
      [] p = "\\draw[line width=1pt, stealth-latex] (0,0) -- (1,1);"
             -> <<"wire", "(0,0)", "--", "(1,1)",
                  "[line width=1pt, stealth-latex]">>

\* C13: a \draw or \path statement whose option text holds <-, -> or <->
\* gives no token sequence and raises nothing: alone it leaves the
\* tokenizer with nothing to return, and before or after another statement
\* the only sequence returned is that of the other statement.
C13_ArrowStatementsSkipped ==
    (pc = "returned" /\ call[1] = "tokenize_all_draw_contents")
        => \A a \in ArrowStatements :
              /\ call[2] = a => ret = NoneDict
              /\ \A p \in PlainStatements :
                     call[2] \in {join(<<a, p>>, "\n"), join(<<p, a>>, "\n")}
                         => /\ ~IsExc(ret)
                            /\ "list" \in DOMAIN ret
                            /\ ret.list = <<PlainTokens(p)>>

\* A number of a record that is a rounded value and not -0.0; a string is
\* no number.
IsClean(value) == value[1] \in {"float", "int", "str"}

CleanPair(pair) == IsClean(pair.x) /\ IsClean(pair.y)

\* C14: in every record built from a token sequence, the coordinates of
\* the position and of the points, the size and the scale are rounded to
\* three decimal places and none is negative zero.
C14_NumbersCleaned ==
    (pc = "returned" /\ call[1] = "convert_tokens_to_json" /\ ~IsExc(ret))
        => /\ "position" \in DOMAIN ret => CleanPair(ret.position)
           /\ "points" \in DOMAIN ret
                  => \A k \in 1..Len(ret.points) : CleanPair(ret.points[k])
           /\ "size" \in DOMAIN ret => CleanPair(ret.size)
           /\ "scale" \in DOMAIN ret => CleanPair(ret.scale)

\* The value of a stated minimum width or height
Stated(text) ==
    CASE text = "1cm" -> PyFloat(1000)
      [] text = "0.5cm" -> PyFloat(500)
      [] text = "2cm" -> PyFloat(2000)
      [] text = "-0.035cm" -> PyFloat(-35)
      [] text \in {"0cm", "-0cm"} -> PyFloat(0)

\* The value of a number of a record, in thousandths
Thousandths(value) == IF value[1] = "int" THEN 1000 * value[2] ELSE value[2]

\* A stated value times the shape scale constant, in thousandths
ShapeScaled(text) ==
    Thousandths(RoundMul(Stated(text), LATEX_TO_JSON_SCALE_SHAPE_FACTOR))

\* C15: for shape options with a minimum width, size.x is the width times
\* the shape scale constant, or zero when that is negative, and size.y is
\* the minimum height times the shape scale constant when a minimum height
\* is stated and size.x otherwise.
C15_SizeFromOptions ==
    \A s \in ShapeKinds, w \in MinWidths \ {""}, h \in MinHeights :
        (/\ pc = "returned"
         /\ call[1] = "parse_shape_size"
         /\ call[2] = ShapeText(s, w, h))
            => /\ "size" \in DOMAIN ret
               /\ Thousandths(ret.size.x)
                      = (IF ShapeScaled(w) < 0 THEN 0 ELSE ShapeScaled(w))
               /\ Thousandths(ret.size.y)
                      = (IF h # "" THEN ShapeScaled(h)
                         ELSE Thousandths(ret.size.x))

\* C15 witness: a circle of negative minimum width and no minimum height,
\* whose size is zero by zero.
C15_Witness ==
    /\ pc = "returned"
    /\ call[1] = "parse_shape_size"
    /\ call[2] = "shape=circle, draw, minimum width=-0.035cm"
    /\ "size" \in DOMAIN ret
    /\ ret.size = [x |-> PyInt(0), y |-> PyInt(0)]

\* The single-node statement of the first example
ExampleNode ==
    "\\node[shape=circle, draw, line width=1pt, minimum width=-0.035cm] at (3.5, 8.75){};"

\* C16 as stated: the example node converts to one ellipse at
\* (132.33, -330.71) of size zero with a stroke of width 1pt.
C16_ExampleNodeAsStated ==
    (pc = "done" /\ BodyLines = <<ExampleNode>>)
        => /\ "components" \in DOMAIN output
           /\ output.components
                = << [type |-> "ellipse",
                      position |-> [x |-> PyFloat(132330),
                                    y |-> PyFloat(-330710)],
                      size |-> [x |-> PyInt(0), y |-> PyInt(0)],
                      stroke |-> [width |-> "1pt"]] >>

\* C16: the example node converts to exactly one component, an ellipse at
\* (132.284, -330.709), which is (3.5, -8.75) times the coordinate scale
\* constant rounded to three places, of size zero with a stroke of width
\* 1pt.
C16_ExampleNode ==
    (pc = "done" /\ BodyLines = <<ExampleNode>>)
        => /\ "components" \in DOMAIN output
           /\ output.components
                = << [type |-> "ellipse",
                      position |-> [x |-> PyFloat(132284),
                                    y |-> PyFloat(-330709)],
                      size |-> [x |-> PyInt(0), y |-> PyInt(0)],
                      stroke |-> [width |-> "1pt"]] >>

\* C16 witness: the document of the example node alone, written with one
\* component.
C16_Witness ==
    /\ pc = "done"
    /\ BodyLines = <<ExampleNode>>
    /\ "components" \in DOMAIN output
    /\ Len(output.components) = 1
    /\ output.components[1].type = "ellipse"

\* The \draw statement of the second example
ExampleChain ==
    "\\draw (9.54, 10.75) to[cute inductor, l_={$L_1$}] (9.54, 9.75);"

\* C17: the example chain converts to one record of type path with two
\* points, the label value L_1 at distance 0.12cm and the id
\* "cute inductor".
C17_ExampleChain ==
    (pc = "done" /\ BodyLines = <<ExampleChain>>)
        => /\ "components" \in DOMAIN output
           /\ Len(output.components) = 1
           /\ output.components[1].type = "path"
           /\ Len(output.components[1].points) = 2
           /\ output.components[1].label.value = "L_1"
           /\ output.components[1].label.distance = "0.12cm"
           /\ output.components[1].id = "cute inductor"

\* C17 witness: the document of the example chain alone, written with
\* the two end points of the chain.
C17_Witness ==
    /\ pc = "done"
    /\ BodyLines = <<ExampleChain>>
    /\ "components" \in DOMAIN output
    /\ output.components[1].points
         = << [x |-> PyFloat(360567), y |-> PyFloat(-406299)],
              [x |-> PyFloat(360567), y |-> PyFloat(-368504)] >>

\* C18: a label of balanced $ pairs (a \$ is no delimiter) is split into
\* as many spans as it has math spans and spans of text between them, and
\* the spans returned, concatenated, are the label.
C18_SpansReproduceText ==
    (pc = "returned" /\ call[1] = "parse_label_mixed_latex")
        => /\ Len(ret) = Len(call[3])
           /\ join(ret, "") = call[2]

\* C19: a \$ neither ends a math span nor starts one: a label with \$
\* is split into the spans it was written from.
C19_EscapedDollarNeverToggles ==
    (pc = "returned" /\ call[1] = "parse_label_mixed_latex"
     /\ Contains(call[2], "\\$"))
        => ret = call[3]

\* The spans that remain when the command is removed, joined by spaces
FontRemoved(f) == join(<<f.rest>> \o f.more, " ")

\* C20: of a text or label that starts with a formatting command only the
\* command is removed and recorded as the font size: the text of a shape
\* is the rest of the first span and the other spans joined by spaces, and
\* so is the label of a three-node statement (less the $ at its ends).
C20_OnlyCommandRemoved ==
    \A f \in FontTexts :
        /\ (/\ pc = "returned"
             /\ call[1] = "parse_text_for_shape"
             /\ call[2] = FontText(f))
                => /\ ~IsExc(ret)
                   /\ ret.text = FontRemoved(f)
                   /\ "fontSize" \in DOMAIN ret
                   /\ ret.fontSize = f.cmd
        /\ (/\ pc = "returned"
             /\ call[1] = "convert_tokens_to_json"
             /\ call[2] = FontTokens(FontText(f)))
                => /\ ~IsExc(ret)
                   /\ "label" \in DOMAIN ret
                   /\ ret.label.value = StripChars(FontRemoved(f), {"$"})
                   /\ \E key \in DOMAIN ret.label : ret.label[key] = f.cmd

\* C21: the block is the text between the first matching markers of the
\* document without its comments: there is a block exactly when that
\* document has one, and the block, without its comments, is that text.
C21_MarkersSearchedWithoutComments ==
    (pc = "returned" /\ call[1] = "extract_circuitikz_content")
        => \E block \in {extract_circuitikz_content(remove_comments(call[2]))} :
              /\ (ret = None) <=> (block = None)
              /\ ret # None => remove_comments(ret) = block

\* C22: a statement with a to clause is emitted with kind to and none of
\* its tokens begins with to any more, the clause being left as its
\* bracket group; a statement without one is emitted with kind wire.
C22_ToKeywordRemoved ==
    \A t \in ToStatements \cup PlainStatements :
        (/\ pc = "returned"
         /\ call[1] = "tokenize_all_draw_contents"
         /\ call[2] = t)
            => /\ "list" \in DOMAIN ret
               /\ Len(ret.list) = 1
               /\ IF Contains(t, "to[")
                  THEN /\ ret.list[1][1] = "to"
                       /\ \A k \in 2..Len(ret.list[1]) :
                              ~startswith(ret.list[1][k], "to")
                       /\ \E k \in 2..Len(ret.list[1]) :
                              startswith(ret.list[1][k], "[")
                  ELSE ret.list[1][1] = "wire"

\* The place of an attribute in the order geometry/position, size, name,
\* stroke, fill, label/text, rotation/scale
AttributeRank(key) ==
    CASE key \in {"type", "position"} -> 1
      [] key = "size" -> 2
      [] key = "name" -> 3
      [] key = "stroke" -> 4
      [] key = "fill" -> 5
      [] key \in {"label", "text"} -> 6
      [] key \in {"rotation", "scale"} -> 7

\* C23: the node, 2node and 3node branches set the attributes of their
\* record in the order geometry/position, size, name, stroke, fill,
\* label/text, rotation/scale.
C23_AttributesInFixedOrder ==
    (pc = "returned" /\ call[1] = "list(convert_tokens_to_json)")
        => /\ ~IsExc(ret)
           /\ Len(ret.list) > 0
           /\ \A i \in 1..Len(ret.list) : \A j \in i..Len(ret.list) :
                  AttributeRank(ret.list[i]) <= AttributeRank(ret.list[j])

\* The points of a token sequence are one and the same point
SamePoint(tokens) ==
    \E points \in {get_coordinate_list(tokens)} :
        /\ "list" \in DOMAIN points
        /\ Len(points.list) > 0
        /\ \A k \in 1..Len(points.list) : points.list[k] = points.list[1]

\* C24: a wire statement all of whose coordinates are the same point adds
\* no wire: no wire record is returned for its token sequence.
C24_SamePointAddsNoWire ==
    (/\ pc = "returned"
     /\ call[1] = "convert_tokens_to_json"
     /\ call[2][1] = "wire"
     /\ SamePoint(call[2]))
        => ret = NoneDict

\* C25: the document written for a text that holds a matching begin/end
\* pair is never the error document: it has the version "0.1" and the list
\* of components, whatever the body of the block, an empty body included.
C25_BlockNeverGivesErrorDocument ==
    (pc = "done" /\ circuit_content # None)
        => /\ DOMAIN output = {"version", "components"}
           /\ output.version = "0.1"

\* C26: the label of the path record of a to chain whose options state a
\* label l={$...$} or l_={$...$} carries the text of that label as its
\* value, wherever the label stands among the options.
C26_LabelCarriesValue ==
    (/\ pc = "returned"
     /\ call[1] = "convert_tokens_to_json"
     /\ call \in ChainCalls)
        => /\ "label" \in DOMAIN ret
           /\ "value" \in DOMAIN ret.label
           /\ ret.label.value = call[3]

\* C27: in every wire record returned, directions has exactly one entry
\* fewer than points.
C27_OneDirectionBetweenPoints ==
    (/\ pc = "returned"
     /\ call[1] = "convert_tokens_to_json"
     /\ "type" \in DOMAIN ret
     /\ ret.type = "wire")
        => Len(ret.directions) = Len(ret.points) - 1

====
